---- MODULE Spec2Model ----
(***************************************************************************)
(* Model of the asqio web SDK.                                             *)
(*                                                                         *)
(* Part 1: AsqioClient (client/AsqioClient.ts) and the error taxonomy      *)
(* (client/errors.ts).  Several callers share one client; every            *)
(* invocation of an operation runs AsqioClient.request, which suspends at  *)
(* `await this.getToken()`, at `await fetch(...)` and at                   *)
(* `await response.json()`.  Each suspension point is one action, so the   *)
(* invocations of different callers interleave at exactly those points.    *)
(***************************************************************************)
EXTENDS Integers, Sequences, FiniteSets, TLC

\* Total number of operations invoked on the shared client in one run.
MaxCalls == 2

\* The callers that invoke operations on the one shared client concurrently.
Callers == {"a", "b"}

----------------------------------------------------------------------------
\* JavaScript values.  Every value is a record tagged by t.

Undefined == [t |-> "undefined"]
JNull == [t |-> "null"]
Str(s) == [t |-> "string", s |-> s]
Num(n) == [t |-> "number", n |-> n]
Arr(items) == [t |-> "array", a |-> items]
Obj(fields) == [t |-> "object", f |-> fields]
\* "no value yet" marker of the model (not a JavaScript value)
None == [kind |-> "none"]

\* x ?? d
Coalesce(x, d) == IF x.t \in {"undefined", "null"} THEN d ELSE x

\* x?.name : undefined for a nullish x, for a primitive and for a missing key
Field(x, name) ==
    IF x.t = "object" /\ name \in DOMAIN x.f THEN x.f[name] ELSE Undefined

----------------------------------------------------------------------------
\* Error taxonomy

AsqioError(message, code, statusCode) ==
    [t |-> "error", name |-> "AsqioError", message |-> message,
     code |-> code, statusCode |-> statusCode]

AsqioNetworkError(message, cause) ==
    [t |-> "error", name |-> "AsqioNetworkError", message |-> Str(message),
     cause |-> cause]

\* errors that are not part of the taxonomy
NativeError(name, message) ==
    [t |-> "error", name |-> name, message |-> Str(message)]

IsAsqioError(x) == x.t = "error" /\ x.name = "AsqioError"
IsAsqioNetworkError(x) == x.t = "error" /\ x.name = "AsqioNetworkError"

----------------------------------------------------------------------------
\* Configuration of the client under test

tenantKey == "test-tenant"

\* The token provider hands out a fresh token on every resolution.
Token(k) == "token-" \o ToString(k)

\* Values the token provider or the transport may reject with: an Error, a
\* bare string, and a server-rejection failure raised by somebody else.
RejectionValues ==
    { NativeError("TypeError", "Failed to fetch"),
      Str("offline"),
      AsqioError(Str("Unauthorized"), Str("UNAUTHORIZED"), 401) }

----------------------------------------------------------------------------
\* Responses of the transport.  body is what response.json() settles with:
\* a parsed JSON value, or ParseFailure when the body is not JSON.

ParseFailure == [t |-> "parse-failure"]

\* Bodies of ok responses: not JSON, JSON null, a plain record, and a record
\* carrying the wrapped results of getTopics and getUnreadCount.
OkBodies ==
    { ParseFailure,
      JNull,
      Obj([id |-> Str("x1")]),
      Obj([topics |-> Arr(<<Str("billing"), Str("bug")>>), unread_count |-> Num(5)]) }

\* Bodies of rejections: not JSON, JSON null, a record with neither field,
\* and records with error and/or code (an empty error, a null code).
ErrorBodies ==
    { ParseFailure,
      JNull,
      Obj([id |-> Str("x1")]),
      Obj([error |-> Str("Validation failed"), code |-> Str("VALIDATION_ERROR")]),
      Obj([error |-> Str("Validation failed")]),
      Obj([code |-> Str("VALIDATION_ERROR")]),
      Obj([error |-> Str(""), code |-> JNull]) }

\* A 204 response has no body: its reader always fails.
Responses ==
    { [status |-> 204, body |-> ParseFailure] } \cup
    { [status |-> 200, body |-> b] : b \in OkBodies } \cup
    { [status |-> 422, body |-> b] : b \in ErrorBodies } \cup
    { [status |-> 500, body |-> b] : b \in {ParseFailure, JNull} }

\* Response.ok
ResponseOk(resp) == resp.status >= 200 /\ resp.status <= 299

----------------------------------------------------------------------------
\* The operations of AsqioClient

Operations ==
    { "getTopics", "getTickets", "getTicket", "createTicket", "getMessages",
      "sendMessage", "markAsRead", "getUnreadCount", "registerDevice",
      "updateDevice", "deleteDevice" }

\* init.method of the operation's request ("" : not set, the transport's GET)
Method(op) ==
    CASE op \in {"createTicket", "sendMessage", "markAsRead", "registerDevice"} -> "POST"
      [] op = "updateDevice" -> "PUT"
      [] op = "deleteDevice" -> "DELETE"
      [] OTHER -> ""

\* the path handed to request (ids fixed, no pagination)
Path(op) ==
    CASE op = "getTopics" -> "/topics"
      [] op \in {"getTickets", "createTicket"} -> "/tickets"
      [] op = "getTicket" -> "/tickets/t1"
      [] op \in {"getMessages", "sendMessage"} -> "/tickets/t1/messages"
      [] op = "markAsRead" -> "/tickets/t1/read"
      [] op = "getUnreadCount" -> "/unread_count"
      [] op = "registerDevice" -> "/devices"
      [] OTHER -> "/devices/d1"

\* does the operation pass init.body
HasBody(op) ==
    op \in {"createTicket", "sendMessage", "registerDevice", "updateDevice"}

HeadersNoScheme(token) ==
    [Authorization |-> token,
     XTenantKey |-> tenantKey,
     ContentType |-> "application/json",
     Accept |-> "application/json"]

Headers(token) ==
    [Authorization |-> "Bearer " \o token,
     XTenantKey |-> tenantKey,
     ContentType |-> "application/json",
     Accept |-> "application/json"]

FetchCall(op, token) ==
    [path |-> Path(op), method |-> Method(op), hasBody |-> HasBody(op),
     headers |-> Headers(token)]

\* Outcomes of an invocation
Resolved(v) == [kind |-> "resolved", value |-> v]
Rejected(e) == [kind |-> "rejected", value |-> e]

TokenFailureNoCause(e) ==
    Rejected(AsqioNetworkError("Failed to retrieve auth token", Undefined))

TokenFailure(e) == Rejected(AsqioNetworkError("Failed to retrieve auth token", e))

FetchFailureRaw(e) == Rejected(e)

FetchFailure(e) == Rejected(AsqioNetworkError("Network request failed", e))

ErrorFromResponseNoBody(resp) ==
    AsqioError(Str("Request failed with status " \o ToString(resp.status)),
               Str("INTERNAL_SERVER_ERROR"), resp.status)

ErrorFromResponseAllOrNothing(resp) ==
    LET errorBody == IF resp.body = ParseFailure THEN Undefined ELSE resp.body
        complete == /\ Field(errorBody, "error").t \notin {"undefined", "null"}
                    /\ Field(errorBody, "code").t \notin {"undefined", "null"}
    IN  IF complete
        THEN AsqioError(Field(errorBody, "error"), Field(errorBody, "code"), resp.status)
        ELSE ErrorFromResponseNoBody(resp)

\* the AsqioError thrown for a non-ok response whose json() settled as body
ErrorFromResponse(resp) ==
    LET errorBody == IF resp.body = ParseFailure THEN Undefined ELSE resp.body
    IN  AsqioError(
          Coalesce(Field(errorBody, "error"),
                   Str("Request failed with status " \o ToString(resp.status))),
          Coalesce(Field(errorBody, "code"), Str("INTERNAL_SERVER_ERROR")),
          resp.status)

UnwrapNothing(op, res) == Resolved(res)

\* What the operation does with the value res that request resolved with.
Unwrap(op, res) ==
    CASE op \in {"getTopics", "getUnreadCount"} ->
            IF res.t \in {"undefined", "null"}
            THEN Rejected(NativeError("TypeError", "Cannot read properties"))
            ELSE Resolved(Field(res, IF op = "getTopics" THEN "topics" ELSE "unread_count"))
      [] op \in {"markAsRead", "deleteDevice"} -> Resolved(Undefined)
      [] OTHER -> Resolved(res)

\* `return response.json()` of an ok response, then the operation's own code
OkOutcome(op, resp) ==
    IF resp.body = ParseFailure
    THEN Rejected(NativeError("SyntaxError", "Unexpected token"))
    ELSE Unwrap(op, resp.body)

----------------------------------------------------------------------------
VARIABLES
    pc,           \* caller -> where its invocation is suspended
    op,           \* caller -> the operation it invoked
    tokenCalls,   \* caller -> calls of getToken made by the invocation
    tokenResult,  \* caller -> how its getToken() settled
    fetchLog,     \* caller -> the transport calls made by the invocation
    fetchResult,  \* caller -> how its fetch() settled
    jsonCalls,    \* caller -> calls of response.json() by the invocation
    outcome,      \* caller -> how the invocation settled
    settlements,  \* caller -> number of times the invocation settled
    issued,       \* tokens handed out by the token provider so far
    started       \* operations invoked so far

clientVars == <<pc, op, tokenCalls, tokenResult, fetchLog, fetchResult,
                jsonCalls, outcome, settlements, issued, started>>

----------------------------------------------------------------------------
\* State of the synchronization hooks (hooks/useTopics.ts and its siblings).

\* The query hook instances rendered under one provider.
Hooks == {"h1", "h2"}

\* The instance that is followed when a hook is rendered on its own.
Alone == {"h1"}

VARIABLES
    hMounted,   \* hook -> "no" (not rendered yet), "yes", "gone" (unmounted)
    hKind,      \* hook -> which query hook the instance is
    hData,      \* hook -> topics / tickets / ticket / count
    hLoading,   \* hook -> loading
    hError,     \* hook -> error
    hFetches,   \* hook -> the fetches it started, in start order
    hSettled,   \* hook -> indexes of its settled fetches, in settlement order
    hLast,      \* hook -> the last thing that happened to the instance
    hInterval,  \* hook -> pollInterval (0: not configured)
    hChanges,   \* hook -> how many times pollInterval changed since mount
    hTimers,    \* hook -> the recurring timers it scheduled
    clock       \* time units elapsed since the first instance mounted

hookVars == <<hMounted, hKind, hData, hLoading, hError, hFetches, hSettled,
              hLast, hInterval, hChanges, hTimers, clock>>

HooksInit ==
    /\ hMounted = [h \in Hooks |-> "no"]
    /\ hKind = [h \in Hooks |-> ""]
    /\ hData = [h \in Hooks |-> Undefined]
    /\ hLoading = [h \in Hooks |-> FALSE]
    /\ hError = [h \in Hooks |-> JNull]
    /\ hFetches = [h \in Hooks |-> <<>>]
    /\ hSettled = [h \in Hooks |-> <<>>]
    /\ hLast = [h \in Hooks |-> [ev |-> "none", k |-> 0]]
    /\ hInterval = [h \in Hooks |-> 0]
    /\ hChanges = [h \in Hooks |-> 0]
    /\ hTimers = [h \in Hooks |-> <<>>]
    /\ clock = 0

\* The mutation hook instances rendered under the same provider.
Mutations == {"create", "send", "markAsRead"}

VARIABLES
    mLoading,   \* mutation hook -> loading
    mError,     \* mutation hook -> error
    mCalls,     \* mutation hook -> its invocations, in start order
    mLast       \* mutation hook -> the last thing that happened to it

mutationVars == <<mLoading, mError, mCalls, mLast>>

MutationsInit ==
    /\ mLoading = [m \in Mutations |-> FALSE]
    /\ mError = [m \in Mutations |-> JNull]
    /\ mCalls = [m \in Mutations |-> <<>>]
    /\ mLast = [m \in Mutations |-> [ev |-> "none", k |-> 0]]

\* The functions of the client and of the probe that are applied on their
\* own, the probe called again and again in a changing environment, and
\* the AsqioSupport component.
VARIABLES
    applied,      \* the last function application: its inputs and its result
    navigator,    \* the environment the probe reads
    lastParen,    \* RegExp.$1, the static the regular expression tests share
    probeLog,     \* the calls of detectDeviceInfo: environment and result
    view,         \* the view AsqioSupport shows
    selectedId,   \* the ticket id the detail view is shown for
    clicks        \* what the user did in AsqioSupport and what was shown after it

appliedVars == <<applied>>
probeVars == <<navigator, lastParen, probeLog>>
supportVars == <<view, selectedId, clicks>>

\* The hook fetch each client invocation was made for, when the hooks are
\* followed down to the client.
VARIABLES
    serving       \* caller -> the hook instance and fetch its invocation serves

liveVars == <<serving>>

\* State of NewThreadForm.
VARIABLES
    fields,       \* context prop and the title, topicId and message states
    submits,      \* the submits of the form: what create was called with, its outcome
    notified      \* the tickets onCreated was called with, in call order

formVars == <<fields, submits, notified>>

vars == <<clientVars, hookVars, mutationVars, appliedVars, probeVars, supportVars,
          liveVars, formVars>>

Init ==
    /\ HooksInit
    /\ MutationsInit
    /\ applied = [fn |-> "none"]
    /\ navigator = [defined |-> FALSE, userAgent |-> <<>>, language |-> "",
                    timeZone |-> "UTC"]
    /\ lastParen = [parts |-> <<>>, sep |-> "."]
    /\ probeLog = <<>>
    /\ view = "list"
    /\ selectedId = JNull
    /\ clicks = <<>>
    /\ serving = [c \in Callers |-> [h |-> "", k |-> 0]]
    /\ fields = [rendered |-> FALSE, context |-> Undefined, onCreated |-> FALSE,
                 title |-> <<>>, topicId |-> "", message |-> <<>>]
    /\ submits = <<>>
    /\ notified = <<>>
    /\ pc = [c \in Callers |-> "idle"]
    /\ op = [c \in Callers |-> ""]
    /\ tokenCalls = [c \in Callers |-> 0]
    /\ tokenResult = [c \in Callers |-> None]
    /\ fetchLog = [c \in Callers |-> <<>>]
    /\ fetchResult = [c \in Callers |-> None]
    /\ jsonCalls = [c \in Callers |-> 0]
    /\ outcome = [c \in Callers |-> None]
    /\ settlements = [c \in Callers |-> 0]
    /\ issued = 0
    /\ started = 0

CallCached(c, o) ==
    /\ pc[c] = "idle"
    /\ started < MaxCalls
    /\ started' = started + 1
    /\ op' = [op EXCEPT ![c] = o]
    /\ fetchResult' = [fetchResult EXCEPT ![c] = None]
    /\ jsonCalls' = [jsonCalls EXCEPT ![c] = 0]
    /\ outcome' = [outcome EXCEPT ![c] = None]
    /\ settlements' = [settlements EXCEPT ![c] = 0]
    /\ IF issued > 0
       THEN /\ tokenCalls' = [tokenCalls EXCEPT ![c] = 0]
            /\ tokenResult' = [tokenResult EXCEPT ![c] = Resolved(Str(Token(issued)))]
            /\ fetchLog' = [fetchLog EXCEPT ![c] = <<FetchCall(o, Token(issued))>>]
            /\ pc' = [pc EXCEPT ![c] = "awaitFetch"]
       ELSE /\ tokenCalls' = [tokenCalls EXCEPT ![c] = 1]
            /\ tokenResult' = [tokenResult EXCEPT ![c] = None]
            /\ fetchLog' = [fetchLog EXCEPT ![c] = <<>>]
            /\ pc' = [pc EXCEPT ![c] = "awaitToken"]
    /\ UNCHANGED issued

\* A caller invokes an operation: request runs up to `await this.getToken()`.
Call(c, o) ==
    /\ pc[c] = "idle"
    /\ started < MaxCalls
    /\ started' = started + 1
    /\ op' = [op EXCEPT ![c] = o]
    /\ tokenCalls' = [tokenCalls EXCEPT ![c] = 1]
    /\ tokenResult' = [tokenResult EXCEPT ![c] = None]
    /\ fetchLog' = [fetchLog EXCEPT ![c] = <<>>]
    /\ fetchResult' = [fetchResult EXCEPT ![c] = None]
    /\ jsonCalls' = [jsonCalls EXCEPT ![c] = 0]
    /\ outcome' = [outcome EXCEPT ![c] = None]
    /\ settlements' = [settlements EXCEPT ![c] = 0]
    /\ pc' = [pc EXCEPT ![c] = "awaitToken"]
    /\ UNCHANGED issued

\* getToken() resolves: request builds the headers and calls fetch.
TokenResolve(c) ==
    /\ pc[c] = "awaitToken"
    /\ issued' = issued + 1
    /\ tokenResult' = [tokenResult EXCEPT ![c] = Resolved(Str(Token(issued + 1)))]
    /\ fetchLog' = [fetchLog EXCEPT ![c] = Append(@, FetchCall(op[c], Token(issued + 1)))]
    /\ pc' = [pc EXCEPT ![c] = "awaitFetch"]
    /\ UNCHANGED <<op, tokenCalls, fetchResult, jsonCalls, outcome, settlements, started>>

\* getToken() rejects with e.
TokenReject(c, e) ==
    /\ pc[c] = "awaitToken"
    /\ tokenResult' = [tokenResult EXCEPT ![c] = Rejected(e)]
    /\ outcome' = [outcome EXCEPT ![c] = TokenFailure(e)]
    /\ settlements' = [settlements EXCEPT ![c] = @ + 1]
    /\ pc' = [pc EXCEPT ![c] = "done"]
    /\ UNCHANGED <<op, tokenCalls, fetchLog, fetchResult, jsonCalls, issued, started>>

FetchRejectRetry(c, e) ==
    /\ pc[c] = "awaitFetch"
    /\ IF Len(fetchLog[c]) < 2
       THEN /\ fetchLog' = [fetchLog EXCEPT ![c] = Append(@, @[1])]
            /\ UNCHANGED <<pc, fetchResult, outcome, settlements>>
       ELSE /\ fetchResult' = [fetchResult EXCEPT ![c] = Rejected(e)]
            /\ outcome' = [outcome EXCEPT ![c] = FetchFailure(e)]
            /\ settlements' = [settlements EXCEPT ![c] = @ + 1]
            /\ pc' = [pc EXCEPT ![c] = "done"]
            /\ UNCHANGED fetchLog
    /\ UNCHANGED <<op, tokenCalls, tokenResult, jsonCalls, issued, started>>

\* fetch() rejects with e.
FetchReject(c, e) ==
    /\ pc[c] = "awaitFetch"
    /\ fetchResult' = [fetchResult EXCEPT ![c] = Rejected(e)]
    /\ outcome' = [outcome EXCEPT ![c] = FetchFailure(e)]
    /\ settlements' = [settlements EXCEPT ![c] = @ + 1]
    /\ pc' = [pc EXCEPT ![c] = "done"]
    /\ UNCHANGED <<op, tokenCalls, tokenResult, fetchLog, jsonCalls, issued, started>>

\* fetch() resolves with resp: 204 returns at once, anything else reads the body.
FetchResolve(c, resp) ==
    /\ pc[c] = "awaitFetch"
    /\ fetchResult' = [fetchResult EXCEPT ![c] = Resolved(resp)]
    /\ IF resp.status = 204
       THEN /\ outcome' = [outcome EXCEPT ![c] = Unwrap(op[c], Undefined)]
            /\ settlements' = [settlements EXCEPT ![c] = @ + 1]
            /\ pc' = [pc EXCEPT ![c] = "done"]
            /\ UNCHANGED jsonCalls
       ELSE /\ jsonCalls' = [jsonCalls EXCEPT ![c] = @ + 1]
            /\ pc' = [pc EXCEPT ![c] = "awaitJson"]
            /\ UNCHANGED <<outcome, settlements>>
    /\ UNCHANGED <<op, tokenCalls, tokenResult, fetchLog, issued, started>>

JsonSettleWrapped(c) ==
    /\ pc[c] = "awaitJson"
    /\ LET resp == fetchResult[c].value
       IN  outcome' = [outcome EXCEPT ![c] =
                          IF ResponseOk(resp)
                          THEN OkOutcome(op[c], resp)
                          ELSE FetchFailure(ErrorFromResponse(resp))]
    /\ settlements' = [settlements EXCEPT ![c] = @ + 1]
    /\ pc' = [pc EXCEPT ![c] = "done"]
    /\ UNCHANGED <<op, tokenCalls, tokenResult, fetchLog, fetchResult, jsonCalls, issued, started>>

\* response.json() settles.
JsonSettle(c) ==
    /\ pc[c] = "awaitJson"
    /\ LET resp == fetchResult[c].value
       IN  outcome' = [outcome EXCEPT ![c] =
                          IF ResponseOk(resp)
                          THEN OkOutcome(op[c], resp)
                          ELSE Rejected(ErrorFromResponse(resp))]
    /\ settlements' = [settlements EXCEPT ![c] = @ + 1]
    /\ pc' = [pc EXCEPT ![c] = "done"]
    /\ UNCHANGED <<op, tokenCalls, tokenResult, fetchLog, fetchResult, jsonCalls, issued, started>>

\* The caller has consumed the outcome and is ready to invoke again.
Return(c) ==
    /\ pc[c] = "done"
    /\ pc' = [pc EXCEPT ![c] = "idle"]
    /\ op' = [op EXCEPT ![c] = ""]
    /\ tokenCalls' = [tokenCalls EXCEPT ![c] = 0]
    /\ tokenResult' = [tokenResult EXCEPT ![c] = None]
    /\ fetchLog' = [fetchLog EXCEPT ![c] = <<>>]
    /\ fetchResult' = [fetchResult EXCEPT ![c] = None]
    /\ jsonCalls' = [jsonCalls EXCEPT ![c] = 0]
    /\ outcome' = [outcome EXCEPT ![c] = None]
    /\ settlements' = [settlements EXCEPT ![c] = 0]
    /\ UNCHANGED <<issued, started>>

Next ==
    \/ \E c \in Callers, o \in Operations :
          Call(c, o) /\ UNCHANGED <<hookVars, mutationVars, appliedVars, probeVars, supportVars, liveVars, formVars>>
    \/ \E c \in Callers :
          TokenResolve(c) /\ UNCHANGED <<hookVars, mutationVars, appliedVars, probeVars, supportVars, liveVars, formVars>>
    \/ \E c \in Callers, e \in RejectionValues :
          TokenReject(c, e) /\ UNCHANGED <<hookVars, mutationVars, appliedVars, probeVars, supportVars, liveVars, formVars>>
    \/ \E c \in Callers, e \in RejectionValues :
          FetchReject(c, e) /\ UNCHANGED <<hookVars, mutationVars, appliedVars, probeVars, supportVars, liveVars, formVars>>
    \/ \E c \in Callers, resp \in Responses :
          FetchResolve(c, resp) /\ UNCHANGED <<hookVars, mutationVars, appliedVars, probeVars, supportVars, liveVars, formVars>>
    \/ \E c \in Callers :
          JsonSettle(c) /\ UNCHANGED <<hookVars, mutationVars, appliedVars, probeVars, supportVars, liveVars, formVars>>
    \/ \E c \in Callers :
          Return(c) /\ UNCHANGED <<hookVars, mutationVars, appliedVars, probeVars, supportVars, liveVars, formVars>>

Spec == Init /\ [][Next]_vars

----------------------------------------------------------------------------
\* Properties of AsqioClient

\* the invocation of caller c has settled
Done(c) == pc[c] = "done"

\* the invocation of c obtained a response / the response it obtained
GotResponse(c) == fetchResult[c].kind = "resolved"
ResponseOf(c) == fetchResult[c].value

\* the invocation of c failed with error value outcome[c].value
Failed(c) == outcome[c].kind = "rejected"

\* key is a field of the parsed body b that carries a value
Present(b, key) ==
    b.t = "object" /\ key \in DOMAIN b.f /\ b.f[key].t # "null"

\* C1: when the token provider rejects, the operation fails with an
\* AsqioNetworkError "Failed to retrieve auth token" whose cause is the
\* provider's rejection value, and the invocation makes no transport call.
C1_TokenRejection ==
    \A c \in Callers :
        tokenResult[c].kind = "rejected" =>
            /\ Failed(c)
            /\ IsAsqioNetworkError(outcome[c].value)
            /\ outcome[c].value.message = Str("Failed to retrieve auth token")
            /\ outcome[c].value.cause = tokenResult[c].value
            /\ Len(fetchLog[c]) = 0

C1_Witness ==
    \E c \in Callers :
        /\ Done(c)
        /\ tokenResult[c] = Rejected(NativeError("TypeError", "Failed to fetch"))

\* C2: when the transport call rejects, the operation fails with an
\* AsqioNetworkError "Network request failed" whose cause is the transport's
\* rejection value, and never with an AsqioError.
C2_TransportRejection ==
    \A c \in Callers :
        fetchResult[c].kind = "rejected" =>
            /\ Failed(c)
            /\ ~IsAsqioError(outcome[c].value)
            /\ IsAsqioNetworkError(outcome[c].value)
            /\ outcome[c].value.message = Str("Network request failed")
            /\ outcome[c].value.cause = fetchResult[c].value

C2_Witness ==
    \E c \in Callers :
        /\ Done(c)
        /\ fetchResult[c].kind = "rejected"
        /\ IsAsqioError(fetchResult[c].value)

\* C3: every failure that reaches the caller is an AsqioError or an
\* AsqioNetworkError, for every operation, token outcome, transport outcome,
\* response status and body-parse outcome.
C3_OnlyTaxonomyFailures ==
    \A c \in Callers :
        Failed(c) =>
            IsAsqioError(outcome[c].value) \/ IsAsqioNetworkError(outcome[c].value)

\* C4: a non-ok response whose body parses as JSON with fields error and
\* code makes the operation fail with an AsqioError carrying body.error as
\* message, body.code as code and the response status as statusCode.
C4_RejectionWithErrorBody ==
    \A c \in Callers :
        ( /\ Done(c)
          /\ GotResponse(c)
          /\ ~ResponseOk(ResponseOf(c))
          /\ ResponseOf(c).status # 204
          /\ Present(ResponseOf(c).body, "error")
          /\ Present(ResponseOf(c).body, "code") ) =>
            /\ Failed(c)
            /\ IsAsqioError(outcome[c].value)
            /\ outcome[c].value.message = ResponseOf(c).body.f.error
            /\ outcome[c].value.code = ResponseOf(c).body.f.code
            /\ outcome[c].value.statusCode = ResponseOf(c).status

C4_Witness ==
    \E c \in Callers :
        /\ Done(c)
        /\ GotResponse(c)
        /\ ResponseOf(c).status = 422
        /\ Present(ResponseOf(c).body, "error")
        /\ Present(ResponseOf(c).body, "code")

\* C5: a non-ok response whose body is not JSON, or lacks error and/or code,
\* makes the operation fail with an AsqioError whose statusCode is the
\* response status, whose message is the body's error if present and
\* otherwise "Request failed with status <status>", and whose code is the
\* body's code if present and otherwise INTERNAL_SERVER_ERROR, each field
\* falling back on its own; the parse error never reaches the caller.
C5_RejectionFallback ==
    \A c \in Callers :
        ( /\ Done(c)
          /\ GotResponse(c)
          /\ ~ResponseOk(ResponseOf(c))
          /\ ~( /\ Present(ResponseOf(c).body, "error")
                /\ Present(ResponseOf(c).body, "code") ) ) =>
            LET resp == ResponseOf(c)
            IN  /\ Failed(c)
                /\ IsAsqioError(outcome[c].value)
                /\ outcome[c].value.statusCode = resp.status
                /\ outcome[c].value.message =
                      IF Present(resp.body, "error")
                      THEN resp.body.f.error
                      ELSE Str("Request failed with status " \o ToString(resp.status))
                /\ outcome[c].value.code =
                      IF Present(resp.body, "code")
                      THEN resp.body.f.code
                      ELSE Str("INTERNAL_SERVER_ERROR")

\* Two invocations have settled: one on a body with an error but no code,
\* one on a body that is not JSON.
C5_Witness ==
    /\ \E c \in Callers :
        /\ Done(c)
        /\ GotResponse(c)
        /\ ResponseOf(c) = [status |-> 422, body |-> Obj([error |-> Str("Validation failed")])]
    /\ \E c \in Callers :
        /\ Done(c)
        /\ GotResponse(c)
        /\ ResponseOf(c) = [status |-> 500, body |-> ParseFailure]

\* C6: for every operation, a 204 response makes the operation resolve with
\* undefined, and the body reader of that response is never invoked.
C6_NoContentResolvesUndefined ==
    \A c \in Callers :
        (Done(c) /\ GotResponse(c) /\ ResponseOf(c).status = 204) =>
            /\ outcome[c] = Resolved(Undefined)
            /\ jsonCalls[c] = 0

\* C7 as stated: each invocation makes exactly one transport call and ends
\* in exactly one outcome.
C7_ExactlyOneTransportCall ==
    \A c \in Callers :
        Done(c) => Len(fetchLog[c]) = 1 /\ settlements[c] = 1

\* C7 amended: each invocation makes at most one transport call -- exactly
\* one once its token has resolved, none when the token provider rejected --
\* and ends in exactly one outcome; nothing is retried.
C7_AtMostOneTransportCall ==
    \A c \in Callers :
        /\ Len(fetchLog[c]) = (IF tokenResult[c].kind = "resolved" THEN 1 ELSE 0)
        /\ settlements[c] = (IF Done(c) THEN 1 ELSE 0)
        /\ (outcome[c] # None) = Done(c)

\* One invocation settled after its single transport call, another settled
\* without any after its token provider rejected.
C7_Witness ==
    \E c, d \in Callers :
        /\ Done(c) /\ Len(fetchLog[c]) = 1
        /\ Done(d) /\ Len(fetchLog[d]) = 0

\* C8: every transport call carries Authorization = "Bearer " + the token
\* resolved for that call, X-Tenant-Key = the configured tenant key,
\* Content-Type = application/json and Accept = application/json.
C8_StandardHeaders ==
    \A c \in Callers :
        \A k \in 1..Len(fetchLog[c]) :
            /\ tokenResult[c].kind = "resolved"
            /\ fetchLog[c][k].headers.Authorization = "Bearer " \o tokenResult[c].value.s
            /\ fetchLog[c][k].headers.XTenantKey = tenantKey
            /\ fetchLog[c][k].headers.ContentType = "application/json"
            /\ fetchLog[c][k].headers.Accept = "application/json"
            /\ DOMAIN fetchLog[c][k].headers =
                  {"Authorization", "XTenantKey", "ContentType", "Accept"}

C8_Witness ==
    \E c \in Callers :
        /\ Len(fetchLog[c]) = 1
        /\ tokenResult[c] = Resolved(Str(Token(2)))

\* C9: with several invocations running concurrently on the shared client
\* and a provider whose tokens change over time, every invocation calls the
\* provider exactly once (no caching), its transport call exists only once
\* its own token has resolved and carries that token (so two invocations
\* never share a credential), and invocations of the same operation that
\* obtained the same transport settlement end in the same outcome.
C9_ConcurrentInvocations ==
    /\ \A c \in Callers :
        /\ (pc[c] # "idle") => tokenCalls[c] = 1
        /\ Len(fetchLog[c]) > 0 =>
              /\ tokenResult[c].kind = "resolved"
              /\ fetchLog[c][1].headers.Authorization
                    = "Bearer " \o tokenResult[c].value.s
    /\ \A c, d \in Callers :
        /\ (c # d /\ Len(fetchLog[c]) > 0 /\ Len(fetchLog[d]) > 0) =>
              fetchLog[c][1].headers.Authorization
                 # fetchLog[d][1].headers.Authorization
        /\ ( /\ Done(c) /\ Done(d)
             /\ op[c] = op[d]
             /\ fetchResult[c] # None
             /\ fetchResult[c] = fetchResult[d] ) => outcome[c] = outcome[d]

\* Both callers have settled on the same operation and the same response,
\* each having sent its own token.
C9_Witness ==
    \E c, d \in Callers :
        /\ c # d
        /\ Done(c) /\ Done(d)
        /\ op[c] = op[d]
        /\ GotResponse(c)
        /\ fetchResult[c] = fetchResult[d]
        /\ tokenResult[c] # tokenResult[d]

\* C10 as stated: the cause of an AsqioNetworkError produced by the client
\* is never an AsqioError, whatever the provider or the transport rejects
\* with.
C10_CauseNeverAsqioError ==
    \A c \in Callers :
        (Failed(c) /\ IsAsqioNetworkError(outcome[c].value)) =>
            ~IsAsqioError(outcome[c].value.cause)

\* C10 amended: an AsqioNetworkError is produced only when no response was
\* obtained, and its cause is an AsqioError only when the token provider or
\* the transport itself rejected with that very AsqioError; the client never
\* wraps a server rejection it built from a response.
C10_CauseIsTheRejection ==
    \A c \in Callers :
        (Failed(c) /\ IsAsqioNetworkError(outcome[c].value)) =>
            /\ ~GotResponse(c)
            /\ IsAsqioError(outcome[c].value.cause) =>
                  \/ tokenResult[c] = Rejected(outcome[c].value.cause)
                  \/ fetchResult[c] = Rejected(outcome[c].value.cause)

C10_Witness ==
    \E c \in Callers :
        /\ Failed(c)
        /\ IsAsqioNetworkError(outcome[c].value)
        /\ IsAsqioError(outcome[c].value.cause)
        /\ tokenResult[c] = Rejected(outcome[c].value.cause)

----------------------------------------------------------------------------
(***************************************************************************)
(* Part 2: the query hooks.  hooks/useTopics.ts is the query shape; the     *)
(* list (useTickets), detail (useTicket) and unread-count (useUnreadCount)  *)
(* hooks follow the same shape.  A fetch is the run of the hook's fetch     *)
(* callback: its synchronous head (setLoading(true), setError(null), the    *)
(* client call) is one action, its continuation after the await another.    *)
(***************************************************************************)

\* Fetches started by all hook instances together in one run.
MaxFetches == 3

\* Time units that elapse in one run.
MaxTime == 4

\* Changes of pollInterval one hook instance sees in one run.
MaxChanges == 1

QueryKinds == {"topics", "tickets", "ticket", "unreadCount"}

\* pollInterval values of the unread-count hook (0: none configured)
PollIntervals == {0, 2, 3}

\* useState initial value of the data of each hook
EmptyData(kind) ==
    CASE kind = "ticket" -> JNull
      [] kind = "unreadCount" -> Num(0)
      [] OTHER -> Arr(<<>>)

\* what the client operation behind the hook may resolve with
HookResults(kind) ==
    CASE kind = "topics" -> { Arr(<<Str("billing")>>), Arr(<<Str("billing"), Str("bug")>>) }
      [] kind = "tickets" -> { Arr(<<Str("ticket-1")>>), Arr(<<Str("ticket-2")>>) }
      [] kind = "ticket" -> { Obj([id |-> Str("ticket-1")]),
                              Obj([id |-> Str("ticket-1"), title |-> Str("Updated")]) }
      [] OTHER -> { Num(3), Num(7) }

\* what it may reject with: an Error and a bare string
HookRejections == { NativeError("Error", "Fetch failed"), Str("string error") }

\* String(e)
StringOf(e) ==
    CASE e.t = "string" -> e.s
      [] e.t = "number" -> ToString(e.n)
      [] e.t = "null" -> "null"
      [] e.t = "undefined" -> "undefined"
      [] OTHER -> "[object Object]"

NormalizeErrorRaw(e) == e

\* e instanceof Error ? e : new Error(String(e))
NormalizeError(e) ==
    IF e.t = "error" THEN e ELSE NativeError("Error", StringOf(e))

\* list and detail hooks fall back to their empty data when a fetch fails
ResetsOnFailure(kind) == kind \in {"tickets", "ticket"}

RECURSIVE SumOver(_, _)
SumOver(S, n) ==
    IF S = {} THEN 0
    ELSE LET h == CHOOSE x \in S : TRUE IN n[h] + SumOver(S \ {h}, n)

TotalFetches == SumOver(Hooks, [h \in Hooks |-> Len(hFetches[h])])

\* a fetch that has just been started by `by` ("mount", "refetch", "poll")
NewFetch(by, stale) ==
    [by |-> by, state |-> "pending", value |-> Undefined, promise |-> None,
     cleared |-> 0, stale |-> stale]

\* the fetch callback ran to completion: the promise it returned resolves
SettledFetch(f, state, value) ==
    [f EXCEPT !.state = state, !.value = value,
              !.promise = Resolved(Undefined), !.cleared = @ + 1]

InitialFetchDone(fetches) ==
    Len(fetches) > 0 /\ fetches[1].state # "pending"

\* setInterval / clearInterval
ScheduleTimer(timers, interval) ==
    Append(timers, [interval |-> interval, due |-> interval, live |-> TRUE,
                    age |-> 0, fires |-> 0, missed |-> 0])

ClearTimers(timers) ==
    [i \in DOMAIN timers |-> [timers[i] EXCEPT !.live = FALSE]]

\* the timers of hook h once fetch k has settled: a polling hook schedules
\* its recurring timer when its initial fetch has completed
TimersAfterSettle(h, k) ==
    IF k = 1 /\ hMounted[h] = "yes" /\ hInterval[h] > 0
    THEN ScheduleTimer(hTimers[h], hInterval[h])
    ELSE hTimers[h]

MountNotLoading(h, kind, interval) ==
    /\ hMounted[h] = "no"
    /\ TotalFetches < MaxFetches
    /\ interval \in (IF kind = "unreadCount" THEN PollIntervals ELSE {0})
    /\ hMounted' = [hMounted EXCEPT ![h] = "yes"]
    /\ hKind' = [hKind EXCEPT ![h] = kind]
    /\ hInterval' = [hInterval EXCEPT ![h] = interval]
    /\ hData' = [hData EXCEPT ![h] = EmptyData(kind)]
    /\ hLoading' = [hLoading EXCEPT ![h] = FALSE]
    /\ hError' = [hError EXCEPT ![h] = JNull]
    /\ hFetches' = [hFetches EXCEPT ![h] = <<NewFetch("mount", FALSE)>>]
    /\ hLast' = [hLast EXCEPT ![h] = [ev |-> "trigger", k |-> 1]]
    /\ UNCHANGED <<hSettled, hTimers, hChanges, clock>>

MountSchedulesTimer(h, kind, interval) ==
    /\ hMounted[h] = "no"
    /\ TotalFetches < MaxFetches
    /\ interval \in (IF kind = "unreadCount" THEN PollIntervals ELSE {0})
    /\ hMounted' = [hMounted EXCEPT ![h] = "yes"]
    /\ hKind' = [hKind EXCEPT ![h] = kind]
    /\ hInterval' = [hInterval EXCEPT ![h] = interval]
    /\ hData' = [hData EXCEPT ![h] = EmptyData(kind)]
    /\ hLoading' = [hLoading EXCEPT ![h] = TRUE]
    /\ hError' = [hError EXCEPT ![h] = JNull]
    /\ hFetches' = [hFetches EXCEPT ![h] = <<NewFetch("mount", FALSE)>>]
    /\ hLast' = [hLast EXCEPT ![h] = [ev |-> "trigger", k |-> 1]]
    /\ hTimers' = [hTimers EXCEPT ![h] =
                      IF interval > 0 THEN ScheduleTimer(@, interval) ELSE @]
    /\ UNCHANGED <<hSettled, hChanges, clock>>

MountTwice(h, kind, interval) ==
    /\ hMounted[h] = "no"
    /\ TotalFetches + 1 < MaxFetches
    /\ interval \in (IF kind = "unreadCount" THEN PollIntervals ELSE {0})
    /\ hMounted' = [hMounted EXCEPT ![h] = "yes"]
    /\ hKind' = [hKind EXCEPT ![h] = kind]
    /\ hInterval' = [hInterval EXCEPT ![h] = interval]
    /\ hData' = [hData EXCEPT ![h] = EmptyData(kind)]
    /\ hLoading' = [hLoading EXCEPT ![h] = TRUE]
    /\ hError' = [hError EXCEPT ![h] = JNull]
    /\ hFetches' = [hFetches EXCEPT ![h] =
                        <<NewFetch("mount", FALSE), NewFetch("mount", FALSE)>>]
    /\ hLast' = [hLast EXCEPT ![h] = [ev |-> "trigger", k |-> 2]]
    /\ UNCHANGED <<hSettled, hTimers, hChanges, clock>>

\* The hook is rendered for the first time: useState initial values, then the
\* effect runs the fetch callback.
Mount(h, kind, interval) ==
    /\ hMounted[h] = "no"
    /\ TotalFetches < MaxFetches
    /\ interval \in (IF kind = "unreadCount" THEN PollIntervals ELSE {0})
    /\ hMounted' = [hMounted EXCEPT ![h] = "yes"]
    /\ hKind' = [hKind EXCEPT ![h] = kind]
    /\ hInterval' = [hInterval EXCEPT ![h] = interval]
    /\ hData' = [hData EXCEPT ![h] = EmptyData(kind)]
    /\ hLoading' = [hLoading EXCEPT ![h] = TRUE]
    /\ hError' = [hError EXCEPT ![h] = JNull]
    /\ hFetches' = [hFetches EXCEPT ![h] = <<NewFetch("mount", FALSE)>>]
    /\ hLast' = [hLast EXCEPT ![h] = [ev |-> "trigger", k |-> 1]]
    /\ UNCHANGED <<hSettled, hTimers, hChanges, clock>>

RefetchNoLoading(h) ==
    /\ hMounted[h] = "yes"
    /\ TotalFetches < MaxFetches
    /\ hError' = [hError EXCEPT ![h] = JNull]
    /\ hFetches' = [hFetches EXCEPT ![h] = Append(@, NewFetch("refetch", FALSE))]
    /\ hLast' = [hLast EXCEPT ![h] = [ev |-> "trigger", k |-> Len(hFetches[h]) + 1]]
    /\ UNCHANGED <<hMounted, hKind, hData, hLoading, hSettled, hInterval, hTimers, hChanges, clock>>

RefetchKeepError(h) ==
    /\ hMounted[h] = "yes"
    /\ TotalFetches < MaxFetches
    /\ hLoading' = [hLoading EXCEPT ![h] = TRUE]
    /\ hFetches' = [hFetches EXCEPT ![h] = Append(@, NewFetch("refetch", FALSE))]
    /\ hLast' = [hLast EXCEPT ![h] = [ev |-> "trigger", k |-> Len(hFetches[h]) + 1]]
    /\ UNCHANGED <<hMounted, hKind, hData, hError, hSettled, hInterval, hTimers, hChanges, clock>>

\* refetch(): setLoading(true); setError(null); the client operation is called.
Refetch(h) ==
    /\ hMounted[h] = "yes"
    /\ TotalFetches < MaxFetches
    /\ hLoading' = [hLoading EXCEPT ![h] = TRUE]
    /\ hError' = [hError EXCEPT ![h] = JNull]
    /\ hFetches' = [hFetches EXCEPT ![h] = Append(@, NewFetch("refetch", FALSE))]
    /\ hLast' = [hLast EXCEPT ![h] = [ev |-> "trigger", k |-> Len(hFetches[h]) + 1]]
    /\ UNCHANGED <<hMounted, hKind, hData, hSettled, hInterval, hTimers, hChanges, clock>>

FetchFulfilledShared(h, k, r) ==
    /\ k \in DOMAIN hFetches[h]
    /\ hFetches[h][k].state = "pending"
    /\ r \in HookResults(hKind[h])
    /\ hFetches' = [hFetches EXCEPT ![h][k] = SettledFetch(@, "fulfilled", r)]
    /\ hSettled' = [hSettled EXCEPT ![h] = Append(@, k)]
    /\ hLast' = [hLast EXCEPT ![h] = [ev |-> "fulfilled", k |-> k]]
    /\ IF hMounted[h] = "yes"
       THEN /\ hData' = [g \in Hooks |->
                            IF hMounted[g] = "yes" /\ hKind[g] = hKind[h] THEN r
                            ELSE hData[g]]
            /\ hLoading' = [hLoading EXCEPT ![h] = FALSE]
       ELSE UNCHANGED <<hData, hLoading>>
    /\ hTimers' = [hTimers EXCEPT ![h] = TimersAfterSettle(h, k)]
    /\ UNCHANGED <<hMounted, hKind, hError, hInterval, hChanges, clock>>

FetchFulfilledIfLatest(h, k, r) ==
    /\ k \in DOMAIN hFetches[h]
    /\ hFetches[h][k].state = "pending"
    /\ r \in HookResults(hKind[h])
    /\ hFetches' = [hFetches EXCEPT ![h][k] = SettledFetch(@, "fulfilled", r)]
    /\ hSettled' = [hSettled EXCEPT ![h] = Append(@, k)]
    /\ hLast' = [hLast EXCEPT ![h] = [ev |-> "fulfilled", k |-> k]]
    /\ IF hMounted[h] = "yes"
       THEN /\ hData' = [hData EXCEPT ![h] = IF k = Len(hFetches[h]) THEN r ELSE @]
            /\ hLoading' = [hLoading EXCEPT ![h] = FALSE]
       ELSE UNCHANGED <<hData, hLoading>>
    /\ hTimers' = [hTimers EXCEPT ![h] = TimersAfterSettle(h, k)]
    /\ UNCHANGED <<hMounted, hKind, hError, hInterval, hChanges, clock>>

\* The client operation of fetch k resolves with r: setTopics(result), then
\* finally setLoading(false).  State updates of an unmounted hook are dropped.
FetchFulfilled(h, k, r) ==
    /\ k \in DOMAIN hFetches[h]
    /\ hFetches[h][k].state = "pending"
    /\ r \in HookResults(hKind[h])
    /\ hFetches' = [hFetches EXCEPT ![h][k] = SettledFetch(@, "fulfilled", r)]
    /\ hSettled' = [hSettled EXCEPT ![h] = Append(@, k)]
    /\ hLast' = [hLast EXCEPT ![h] = [ev |-> "fulfilled", k |-> k]]
    /\ IF hMounted[h] = "yes"
       THEN /\ hData' = [hData EXCEPT ![h] = r]
            /\ hLoading' = [hLoading EXCEPT ![h] = FALSE]
       ELSE UNCHANGED <<hData, hLoading>>
    /\ hTimers' = [hTimers EXCEPT ![h] = TimersAfterSettle(h, k)]
    /\ UNCHANGED <<hMounted, hKind, hError, hInterval, hChanges, clock>>

FetchRejectedResets(h, k, e) ==
    /\ k \in DOMAIN hFetches[h]
    /\ hFetches[h][k].state = "pending"
    /\ hFetches' = [hFetches EXCEPT ![h][k] = SettledFetch(@, "rejected", e)]
    /\ hSettled' = [hSettled EXCEPT ![h] = Append(@, k)]
    /\ hLast' = [hLast EXCEPT ![h] = [ev |-> "rejected", k |-> k]]
    /\ IF hMounted[h] = "yes"
       THEN /\ hError' = [hError EXCEPT ![h] = NormalizeError(e)]
            /\ hData' = [hData EXCEPT ![h] = EmptyData(hKind[h])]
            /\ hLoading' = [hLoading EXCEPT ![h] = FALSE]
       ELSE UNCHANGED <<hError, hData, hLoading>>
    /\ hTimers' = [hTimers EXCEPT ![h] = TimersAfterSettle(h, k)]
    /\ UNCHANGED <<hMounted, hKind, hInterval, hChanges, clock>>

FetchRejectedNoFinally(h, k, e) ==
    /\ k \in DOMAIN hFetches[h]
    /\ hFetches[h][k].state = "pending"
    /\ hFetches' = [hFetches EXCEPT ![h][k] =
                        [@ EXCEPT !.state = "rejected", !.value = e,
                                  !.promise = Resolved(Undefined)]]
    /\ hSettled' = [hSettled EXCEPT ![h] = Append(@, k)]
    /\ hLast' = [hLast EXCEPT ![h] = [ev |-> "rejected", k |-> k]]
    /\ IF hMounted[h] = "yes"
       THEN /\ hError' = [hError EXCEPT ![h] = NormalizeError(e)]
            /\ hData' = [hData EXCEPT ![h] =
                            IF ResetsOnFailure(hKind[h]) THEN EmptyData(hKind[h]) ELSE @]
       ELSE UNCHANGED <<hError, hData>>
    /\ hTimers' = [hTimers EXCEPT ![h] = TimersAfterSettle(h, k)]
    /\ UNCHANGED <<hMounted, hKind, hLoading, hInterval, hChanges, clock>>

\* The client operation of fetch k rejects with e: setError(normalized e),
\* then finally setLoading(false).
FetchRejected(h, k, e) ==
    /\ k \in DOMAIN hFetches[h]
    /\ hFetches[h][k].state = "pending"
    /\ hFetches' = [hFetches EXCEPT ![h][k] = SettledFetch(@, "rejected", e)]
    /\ hSettled' = [hSettled EXCEPT ![h] = Append(@, k)]
    /\ hLast' = [hLast EXCEPT ![h] = [ev |-> "rejected", k |-> k]]
    /\ IF hMounted[h] = "yes"
       THEN /\ hError' = [hError EXCEPT ![h] = NormalizeError(e)]
            /\ hData' = [hData EXCEPT ![h] =
                            IF ResetsOnFailure(hKind[h]) THEN EmptyData(hKind[h]) ELSE @]
            /\ hLoading' = [hLoading EXCEPT ![h] = FALSE]
       ELSE UNCHANGED <<hError, hData, hLoading>>
    /\ hTimers' = [hTimers EXCEPT ![h] = TimersAfterSettle(h, k)]
    /\ UNCHANGED <<hMounted, hKind, hInterval, hChanges, clock>>

UnmountLeaky(h) ==
    /\ hMounted[h] = "yes"
    /\ hMounted' = [hMounted EXCEPT ![h] = "gone"]
    /\ hLast' = [hLast EXCEPT ![h] = [ev |-> "unmount", k |-> 0]]
    /\ UNCHANGED <<hKind, hData, hLoading, hError, hFetches, hSettled, hInterval,
                   hTimers, hChanges, clock>>

\* The hook instance is unmounted: the effect cleanup tears the timer down.
Unmount(h) ==
    /\ hMounted[h] = "yes"
    /\ hMounted' = [hMounted EXCEPT ![h] = "gone"]
    /\ hTimers' = [hTimers EXCEPT ![h] = ClearTimers(@)]
    /\ hLast' = [hLast EXCEPT ![h] = [ev |-> "unmount", k |-> 0]]
    /\ UNCHANGED <<hKind, hData, hLoading, hError, hFetches, hSettled, hInterval, hChanges, clock>>

SetPollIntervalLeaky(h, interval) ==
    /\ hMounted[h] = "yes"
    /\ hKind[h] = "unreadCount"
    /\ interval \in PollIntervals \ {hInterval[h]}
    /\ hChanges[h] < MaxChanges
    /\ hChanges' = [hChanges EXCEPT ![h] = @ + 1]
    /\ hInterval' = [hInterval EXCEPT ![h] = interval]
    /\ hTimers' = [hTimers EXCEPT ![h] =
                      IF interval > 0 /\ InitialFetchDone(hFetches[h])
                      THEN ScheduleTimer(@, interval)
                      ELSE ClearTimers(@)]
    /\ hLast' = [hLast EXCEPT ![h] = [ev |-> "interval", k |-> 0]]
    /\ UNCHANGED <<hMounted, hKind, hData, hLoading, hError, hFetches, hSettled, clock>>

\* The unread-count hook is re-rendered with another pollInterval: the old
\* timer is torn down and, the initial fetch being over, a new one scheduled.
SetPollInterval(h, interval) ==
    /\ hMounted[h] = "yes"
    /\ hKind[h] = "unreadCount"
    /\ interval \in PollIntervals \ {hInterval[h]}
    /\ hChanges[h] < MaxChanges
    /\ hChanges' = [hChanges EXCEPT ![h] = @ + 1]
    /\ hInterval' = [hInterval EXCEPT ![h] = interval]
    /\ hTimers' = [hTimers EXCEPT ![h] =
                      IF interval > 0 /\ InitialFetchDone(hFetches[h])
                      THEN ScheduleTimer(ClearTimers(@), interval)
                      ELSE ClearTimers(@)]
    /\ hLast' = [hLast EXCEPT ![h] = [ev |-> "interval", k |-> 0]]
    /\ UNCHANGED <<hMounted, hKind, hData, hLoading, hError, hFetches, hSettled, clock>>

\* the timers of h whose callback runs when one more time unit elapses
Firing(h) == { i \in DOMAIN hTimers[h] : hTimers[h][i].live /\ hTimers[h][i].due = 1 }

\* a callback that runs for a timer the hook no longer owns
FiresTornDown(h) ==
    \/ hMounted[h] # "yes"
    \/ \E i \in Firing(h) : i # Len(hTimers[h]) \/ hTimers[h][i].interval # hInterval[h]

ElapseOnce(timer) ==
    IF timer.due > 1
    THEN [timer EXCEPT !.due = @ - 1, !.age = IF timer.live THEN @ + 1 ELSE @]
    ELSE IF timer.live
         THEN [timer EXCEPT !.due = timer.interval, !.age = @ + 1, !.fires = @ + 1,
                            !.live = FALSE]
         ELSE [timer EXCEPT !.due = timer.interval, !.missed = @ + 1]

\* one time unit later: a live timer that falls due fires and is due again one
\* interval later; for a cleared timer only what it would have done is noted
Elapse(timer) ==
    IF timer.due > 1
    THEN [timer EXCEPT !.due = @ - 1, !.age = IF timer.live THEN @ + 1 ELSE @]
    ELSE IF timer.live
         THEN [timer EXCEPT !.due = timer.interval, !.age = @ + 1, !.fires = @ + 1]
         ELSE [timer EXCEPT !.due = timer.interval, !.missed = @ + 1]

\* One time unit elapses: every timer that fires runs the fetch callback of
\* its hook.
Tick ==
    /\ clock < MaxTime
    /\ \E h \in Hooks : hMounted[h] # "no"
    /\ TotalFetches + SumOver(Hooks, [h \in Hooks |-> Cardinality(Firing(h))]) <= MaxFetches
    /\ clock' = clock + 1
    /\ hTimers' = [h \in Hooks |-> [i \in DOMAIN hTimers[h] |-> Elapse(hTimers[h][i])]]
    /\ hFetches' = [h \in Hooks |->
          hFetches[h] \o
            [j \in 1..Cardinality(Firing(h)) |-> NewFetch("poll", FiresTornDown(h))]]
    /\ hLoading' = [h \in Hooks |->
          IF Firing(h) # {} /\ hMounted[h] = "yes" THEN TRUE ELSE hLoading[h]]
    /\ hError' = [h \in Hooks |->
          IF Firing(h) # {} /\ hMounted[h] = "yes" THEN JNull ELSE hError[h]]
    /\ hLast' = [h \in Hooks |->
          IF Firing(h) # {}
          THEN [ev |-> "trigger", k |-> Len(hFetches[h]) + Cardinality(Firing(h))]
          ELSE hLast[h]]
    /\ UNCHANGED <<hMounted, hKind, hData, hSettled, hInterval, hChanges>>

\* The query hooks with no polling configured: every kind of hook, every
\* result and rejection.
HooksNext ==
    \/ \E h \in Alone, kind \in QueryKinds :
          Mount(h, kind, 0) /\ UNCHANGED <<clientVars, mutationVars, appliedVars, probeVars, supportVars, liveVars, formVars>>
    \/ \E h \in Alone :
          Refetch(h) /\ UNCHANGED <<clientVars, mutationVars, appliedVars, probeVars, supportVars, liveVars, formVars>>
    \/ \E h \in Alone, k \in 1..MaxFetches, r \in UNION { HookResults(q) : q \in QueryKinds } :
          FetchFulfilled(h, k, r) /\ UNCHANGED <<clientVars, mutationVars, appliedVars, probeVars, supportVars, liveVars, formVars>>
    \/ \E h \in Alone, k \in 1..MaxFetches, e \in HookRejections :
          FetchRejected(h, k, e) /\ UNCHANGED <<clientVars, mutationVars, appliedVars, probeVars, supportVars, liveVars, formVars>>
    \/ \E h \in Alone :
          Unmount(h) /\ UNCHANGED <<clientVars, mutationVars, appliedVars, probeVars, supportVars, liveVars, formVars>>

SpecHooks == Init /\ [][HooksNext]_vars

\* the hooks whose fetches the passing of time is followed for
PollingKinds == {"topics", "unreadCount"}

\* The hooks under the passing of time: the unread-count hook with and without
\* a poll interval, and the topics hook, which has none.
PollingNext ==
    \/ \E h \in Alone, kind \in PollingKinds, interval \in PollIntervals :
          Mount(h, kind, interval) /\ UNCHANGED <<clientVars, mutationVars, appliedVars, probeVars, supportVars, liveVars, formVars>>
    \/ \E h \in Alone :
          Refetch(h) /\ UNCHANGED <<clientVars, mutationVars, appliedVars, probeVars, supportVars, liveVars, formVars>>
    \/ \E h \in Alone, k \in 1..MaxFetches :
          FetchFulfilled(h, k, CHOOSE r \in HookResults(hKind[h]) : TRUE)
             /\ UNCHANGED <<clientVars, mutationVars, appliedVars, probeVars, supportVars, liveVars, formVars>>
    \/ \E h \in Alone, k \in 1..MaxFetches :
          FetchRejected(h, k, NativeError("Error", "Fetch failed"))
             /\ UNCHANGED <<clientVars, mutationVars, appliedVars, probeVars, supportVars, liveVars, formVars>>
    \/ \E h \in Alone :
          Unmount(h) /\ UNCHANGED <<clientVars, mutationVars, appliedVars, probeVars, supportVars, liveVars, formVars>>
    \/ \E h \in Alone, interval \in PollIntervals :
          SetPollInterval(h, interval) /\ UNCHANGED <<clientVars, mutationVars, appliedVars, probeVars, supportVars, liveVars, formVars>>
    \/ Tick /\ UNCHANGED <<clientVars, mutationVars, appliedVars, probeVars, supportVars, liveVars, formVars>>

SpecPolling == Init /\ [][PollingNext]_vars

----------------------------------------------------------------------------
(***************************************************************************)
(* Properties of the query hooks.                                           *)
(***************************************************************************)

\* the fetches of a hook that were started by `by`
StartedBy(h, by) == { k \in DOMAIN hFetches[h] : hFetches[h][k].by = by }

RECURSIVE PeriodsElapsed(_)
\* the whole intervals that have elapsed on the timers while they were live
PeriodsElapsed(timers) ==
    IF timers = <<>> THEN 0
    ELSE (Head(timers).age \div Head(timers).interval) + PeriodsElapsed(Tail(timers))

\* C11: once a polling hook is unmounted or its interval changes, the timer
\* that was torn down never fires again: no fetch is ever started by a timer
\* the hook no longer owns, and every timer but the current one of a mounted
\* hook is cleared.
C11_TornDownTimerNeverFires ==
    \A h \in Hooks :
        /\ \A k \in DOMAIN hFetches[h] : ~hFetches[h][k].stale
        /\ \A i \in DOMAIN hTimers[h] :
              hTimers[h][i].live =>
                 /\ hMounted[h] = "yes"
                 /\ i = Len(hTimers[h])
                 /\ hTimers[h][i].interval = hInterval[h]

\* a timer was torn down and a whole interval of it has passed since
C11_Witness ==
    \E h \in Hooks : \E i \in DOMAIN hTimers[h] :
        /\ ~hTimers[h][i].live
        /\ hTimers[h][i].missed >= 1
        /\ hTimers[h][i].fires >= 1

C13_SingleFetchWithoutPolling ==
    \A h \in Hooks :
        (hMounted[h] # "no" /\ hInterval[h] = 0 /\ hChanges[h] = 0
            /\ StartedBy(h, "refetch") = {}) =>
            Len(hFetches[h]) = 1

\* time has passed over a hook with no polling, mounted and after unmount
C13_Witness ==
    \E h \in Hooks :
        /\ hMounted[h] = "gone"
        /\ hInterval[h] = 0 /\ hChanges[h] = 0
        /\ StartedBy(h, "refetch") = {}
        /\ clock >= 3
        /\ Len(hFetches[h]) = 1

\* C14: right after any trigger (mount, refetch or poll tick), from whatever
\* state the hook was in, loading is true and error is null.
C14_TriggerSetsLoadingClearsError ==
    \A h \in Hooks :
        (hMounted[h] = "yes" /\ hLast[h].ev = "trigger") =>
            (hLoading[h] /\ hError[h] = JNull)

\* a refetch right after a fetch that failed
C14_Witness ==
    \E h \in Hooks :
        /\ hMounted[h] = "yes"
        /\ hLast[h].ev = "trigger"
        /\ hSettled[h] # <<>>
        /\ hFetches[h][hSettled[h][Len(hSettled[h])]].state = "rejected"
        /\ hFetches[h][hLast[h].k].by = "refetch"

\* the fetch of h that settled last
LastSettled(h) == hFetches[h][hSettled[h][Len(hSettled[h])]]

\* the results of the fetches of h that succeeded, in settlement order
RECURSIVE Successes(_, _)
Successes(h, order) ==
    IF order = <<>> THEN <<>>
    ELSE IF hFetches[h][Head(order)].state = "fulfilled"
         THEN <<hFetches[h][Head(order)].value>> \o Successes(h, Tail(order))
         ELSE Successes(h, Tail(order))

\* C15: whenever a fetch of a query hook settles successfully, right after
\* that settlement the hook holds that fetch's result as its data and its
\* error is null, also when other fetches of the instance were started or
\* settled while it was in flight.
C15_SuccessStoresDataClearsError ==
    \A h \in Hooks :
        (hMounted[h] = "yes" /\ hLast[h].ev = "fulfilled") =>
            /\ hData[h] = hFetches[h][hLast[h].k].value
            /\ hError[h] = JNull

\* C16: fetches in flight at once are neither deduplicated nor cancelled
\* (every trigger starts a fetch of its own and every fetch can settle), and
\* once all have settled the data held is the result of the successful fetch
\* that settled last, regardless of the start order.
C16_LastSuccessWins ==
    \A h \in Hooks :
        /\ (hLast[h].ev = "trigger") =>
              (hLast[h].k = Len(hFetches[h]) /\ hFetches[h][hLast[h].k].state = "pending")
        /\ (hMounted[h] = "yes"
              /\ (\A k \in DOMAIN hFetches[h] : hFetches[h][k].state # "pending")
              /\ Successes(h, hSettled[h]) # <<>>) =>
              hData[h] = Successes(h, hSettled[h])[Len(Successes(h, hSettled[h]))]

\* C16 as it holds: every trigger starts a fetch of its own, and once all
\* have settled the data is decided by the fetch that settled last,
\* regardless of the start order: its result if it succeeded; if it failed,
\* the empty representation (list, detail) or the result of the successful
\* fetch that settled last (topics, unread count).
C16_LastSettledWins ==
    \A h \in Hooks :
        /\ (hLast[h].ev = "trigger") =>
              (hLast[h].k = Len(hFetches[h]) /\ hFetches[h][hLast[h].k].state = "pending")
        /\ (hMounted[h] = "yes"
              /\ (\A k \in DOMAIN hFetches[h] : hFetches[h][k].state # "pending")
              /\ hSettled[h] # <<>>) =>
              IF LastSettled(h).state = "fulfilled"
              THEN hData[h] = LastSettled(h).value
              ELSE IF ResetsOnFailure(hKind[h]) \/ Successes(h, hSettled[h]) = <<>>
                   THEN hData[h] = EmptyData(hKind[h])
                   ELSE hData[h] = Successes(h, hSettled[h])[Len(Successes(h, hSettled[h]))]

\* two fetches were in flight together, both succeeded with different
\* results, and the one started first settled last
C16_Witness ==
    \E h \in Hooks :
        /\ hMounted[h] = "yes"
        /\ Len(hFetches[h]) = 2 /\ hSettled[h] = <<2, 1>>
        /\ hFetches[h][1].state = "fulfilled" /\ hFetches[h][2].state = "fulfilled"
        /\ hFetches[h][1].value # hFetches[h][2].value
        /\ hData[h] = hFetches[h][1].value

\* C17: each fetch of a query hook sets loading to false exactly once, at its
\* own settlement, on success and on failure alike.
C17_LoadingClearedOncePerFetch ==
    \A h \in Hooks :
        /\ \A k \in DOMAIN hFetches[h] :
              hFetches[h][k].cleared = IF hFetches[h][k].state = "pending" THEN 0 ELSE 1
        /\ (hMounted[h] = "yes" /\ hLast[h].ev \in {"fulfilled", "rejected"}) => ~hLoading[h]

\* one fetch failed and another succeeded
C17_Witness ==
    \E h \in Hooks :
        /\ hMounted[h] = "yes"
        /\ Len(hSettled[h]) = 2
        /\ hFetches[h][hSettled[h][1]].state = "rejected"
        /\ hFetches[h][hSettled[h][2]].state = "fulfilled"
        /\ ~hLoading[h]

\* C18: a query hook captures every failure into state: the promise of the
\* fetch (what refetch returns) never rejects, and the stored error is always
\* an Error: the rejection itself if it is one, else a new Error whose message
\* is the string form of the rejected value.
C18_FailureCapturedAsError ==
    \A h \in Hooks :
        /\ \A k \in DOMAIN hFetches[h] :
              hFetches[h][k].promise \in {None, Resolved(Undefined)}
        /\ hError[h] = JNull \/ hError[h].t = "error"
        /\ (hMounted[h] = "yes" /\ hLast[h].ev = "rejected") =>
              LET e == hFetches[h][hLast[h].k].value IN
                 /\ hFetches[h][hLast[h].k].promise = Resolved(Undefined)
                 /\ hError[h] = IF e.t = "error" THEN e
                                ELSE NativeError("Error", StringOf(e))

\* a refetch rejected with a bare string
C18_Witness ==
    \E h \in Hooks :
        /\ hMounted[h] = "yes"
        /\ hLast[h].ev = "rejected"
        /\ hFetches[h][hLast[h].k].by = "refetch"
        /\ hFetches[h][hLast[h].k].value = Str("string error")
        /\ hError[h] = NativeError("Error", "string error")

\* C19: after any fetch of a list, detail or topics hook settles with
\* failure, the data is the empty representation and error is non-null,
\* whether or not an earlier fetch of the instance had succeeded.
C19_FailureResetsData ==
    \A h \in Hooks :
        (hMounted[h] = "yes" /\ hLast[h].ev = "rejected"
            /\ hKind[h] \in {"tickets", "ticket", "topics"}) =>
            /\ hData[h] = EmptyData(hKind[h])
            /\ hError[h] # JNull

----------------------------------------------------------------------------
(***************************************************************************)
(* Part 3: the mutation hooks (useCreateTicket, useSendMessage,             *)
(* useMarkAsRead).  An invocation is one call of create / send /            *)
(* markAsRead: its head up to the client call is one action, its            *)
(* continuation after the await another.                                    *)
(***************************************************************************)

\* Invocations of all mutation hooks together in one run.
MaxInvocations == 3

\* what the client operation behind the hook resolves with
MutationResult(m) ==
    CASE m = "create" -> Obj([id |-> Str("ticket-1")])
      [] m = "send" -> Obj([id |-> Str("message-1")])
      [] OTHER -> Undefined

TotalInvocations == SumOver(Mutations, [m \in Mutations |-> Len(mCalls[m])])

\* an invocation that has just called the client operation; failedSince and
\* settledSince note whether another invocation of the hook has rejected or
\* settled since
NewCall == [state |-> "pending", value |-> Undefined, promise |-> None,
            failedSince |-> FALSE, settledSince |-> FALSE]

\* the invocations of a hook once invocation k has settled as `settled`
CallsAfterSettle(calls, k, settled) ==
    [j \in DOMAIN calls |->
        IF j = k THEN settled
        ELSE IF calls[j].state = "pending"
             THEN [calls[j] EXCEPT !.settledSince = TRUE,
                                   !.failedSince = @ \/ settled.state = "rejected"]
             ELSE calls[j]]

InvokeKeepError(m) ==
    /\ TotalInvocations < MaxInvocations
    /\ mLoading' = [mLoading EXCEPT ![m] = TRUE]
    /\ mCalls' = [mCalls EXCEPT ![m] = Append(@, NewCall)]
    /\ mLast' = [mLast EXCEPT ![m] = [ev |-> "trigger", k |-> Len(mCalls[m]) + 1]]
    /\ UNCHANGED mError

\* create(params) / send(body) / markAsRead(): clear the error, set loading,
\* call the client operation.
Invoke(m) ==
    /\ TotalInvocations < MaxInvocations
    /\ mError' = [mError EXCEPT ![m] = JNull]
    /\ mLoading' = [mLoading EXCEPT ![m] = TRUE]
    /\ mCalls' = [mCalls EXCEPT ![m] = Append(@, NewCall)]
    /\ mLast' = [mLast EXCEPT ![m] = [ev |-> "trigger", k |-> Len(mCalls[m]) + 1]]

InvokeFulfilledKeepLoading(m, k) ==
    /\ k \in DOMAIN mCalls[m]
    /\ mCalls[m][k].state = "pending"
    /\ mCalls' = [mCalls EXCEPT ![m] = CallsAfterSettle(@, k,
                     [mCalls[m][k] EXCEPT !.state = "fulfilled",
                                          !.value = MutationResult(m),
                                          !.promise = Resolved(MutationResult(m))])]
    /\ mLast' = [mLast EXCEPT ![m] = [ev |-> "fulfilled", k |-> k]]
    /\ UNCHANGED <<mError, mLoading>>

\* The client operation of invocation k resolves: loading is cleared and the
\* call resolves with the result, which is not stored.
InvokeFulfilled(m, k) ==
    /\ k \in DOMAIN mCalls[m]
    /\ mCalls[m][k].state = "pending"
    /\ mCalls' = [mCalls EXCEPT ![m] = CallsAfterSettle(@, k,
                     [mCalls[m][k] EXCEPT !.state = "fulfilled",
                                          !.value = MutationResult(m),
                                          !.promise = Resolved(MutationResult(m))])]
    /\ mLoading' = [mLoading EXCEPT ![m] = FALSE]
    /\ mLast' = [mLast EXCEPT ![m] = [ev |-> "fulfilled", k |-> k]]
    /\ UNCHANGED mError

InvokeRejectedSwallowed(m, k, e) ==
    /\ k \in DOMAIN mCalls[m]
    /\ mCalls[m][k].state = "pending"
    /\ mCalls' = [mCalls EXCEPT ![m] = CallsAfterSettle(@, k,
                     [mCalls[m][k] EXCEPT !.state = "rejected", !.value = e,
                                          !.promise = Resolved(Undefined)])]
    /\ mLoading' = [mLoading EXCEPT ![m] = FALSE]
    /\ mError' = [mError EXCEPT ![m] = NormalizeError(e)]
    /\ mLast' = [mLast EXCEPT ![m] = [ev |-> "rejected", k |-> k]]

\* The client operation of invocation k rejects with e: the normalized error
\* is stored, loading is cleared and the error is thrown again to the caller.
InvokeRejected(m, k, e) ==
    /\ k \in DOMAIN mCalls[m]
    /\ mCalls[m][k].state = "pending"
    /\ mCalls' = [mCalls EXCEPT ![m] = CallsAfterSettle(@, k,
                     [mCalls[m][k] EXCEPT !.state = "rejected", !.value = e,
                                          !.promise = Rejected(NormalizeError(e))])]
    /\ mLoading' = [mLoading EXCEPT ![m] = FALSE]
    /\ mError' = [mError EXCEPT ![m] = NormalizeError(e)]
    /\ mLast' = [mLast EXCEPT ![m] = [ev |-> "rejected", k |-> k]]

MutationsNext ==
    \/ \E m \in Mutations :
          Invoke(m) /\ UNCHANGED <<clientVars, hookVars, appliedVars, probeVars, supportVars, liveVars, formVars>>
    \/ \E m \in Mutations, k \in 1..MaxInvocations :
          InvokeFulfilled(m, k) /\ UNCHANGED <<clientVars, hookVars, appliedVars, probeVars, supportVars, liveVars, formVars>>
    \/ \E m \in Mutations, k \in 1..MaxInvocations, e \in HookRejections :
          InvokeRejected(m, k, e) /\ UNCHANGED <<clientVars, hookVars, appliedVars, probeVars, supportVars, liveVars, formVars>>

SpecMutations == Init /\ [][MutationsNext]_vars

----------------------------------------------------------------------------
(***************************************************************************)
(* Properties of the mutation hooks.                                        *)
(***************************************************************************)

\* C20: when the client operation behind a mutation hook rejects, the hook
\* stores the failure in error and rejects the triggering call with that
\* failure, and loading is false once the call has settled.
C20_MutationFailureStoredAndRethrown ==
    \A m \in Mutations :
        /\ \A k \in DOMAIN mCalls[m] :
              mCalls[m][k].state = "rejected" =>
                 mCalls[m][k].promise = Rejected(NormalizeError(mCalls[m][k].value))
        /\ mLast[m].ev = "rejected" =>
              /\ mError[m] = NormalizeError(mCalls[m][mLast[m].k].value)
              /\ mError[m] # JNull
              /\ mCalls[m][mLast[m].k].promise = Rejected(mError[m])
              /\ ~mLoading[m]

\* a mutation whose operation rejected with a bare string, after an earlier
\* invocation of the same hook
C20_Witness ==
    \E m \in Mutations :
        /\ mLast[m].ev = "rejected"
        /\ mLast[m].k = 2
        /\ mCalls[m][2].value = Str("string error")
        /\ mCalls[m][2].promise = Rejected(NativeError("Error", "string error"))
        /\ ~mLoading[m]

C22_LoadingWhileInFlight ==
    \A m \in Mutations :
        /\ \A k \in DOMAIN mCalls[m] : mCalls[m][k].state = "pending" => mLoading[m]
        /\ mLast[m].ev \in {"fulfilled", "rejected"} => ~mLoading[m]
        /\ \A k \in DOMAIN mCalls[m] :
              mCalls[m][k].state = "fulfilled" =>
                 mCalls[m][k].promise = Resolved(MutationResult(m))

\* C22 as it holds: loading is true from the trigger of an invocation until
\* the first client operation of the hook settles after it, and false right
\* after every settlement; on success the call resolves with the result.
C22_LoadingUntilNextSettlement ==
    \A m \in Mutations :
        /\ \A k \in DOMAIN mCalls[m] :
              (mCalls[m][k].state = "pending" /\ ~mCalls[m][k].settledSince) => mLoading[m]
        /\ mLast[m].ev \in {"fulfilled", "rejected"} => ~mLoading[m]
        /\ \A k \in DOMAIN mCalls[m] :
              mCalls[m][k].state = "fulfilled" =>
                 mCalls[m][k].promise = Resolved(MutationResult(m))

\* an invocation is in flight after an earlier one succeeded, and one has
\* just succeeded
C22_Witness ==
    \E m, n \in Mutations :
        /\ Len(mCalls[m]) = 2
        /\ mCalls[m][1].state = "fulfilled"
        /\ mCalls[m][2].state = "pending" /\ mLoading[m]
        /\ mLast[n].ev = "fulfilled" /\ ~mLoading[n]
        /\ mCalls[n][mLast[n].k].promise = Resolved(MutationResult(n))

----------------------------------------------------------------------------
(***************************************************************************)
(* Further properties of the client.                                        *)
(***************************************************************************)

\* the invocation of c obtained an ok response with a JSON body
OkWithBody(c) ==
    /\ Done(c) /\ GotResponse(c)
    /\ ResponseOf(c).status # 204 /\ ResponseOk(ResponseOf(c))
    /\ ResponseOf(c).body # ParseFailure

\* C27: for every ok response with a body, getUnreadCount resolves with the
\* unread_count of the body, getTopics with the topics of the body, and the
\* other operations with the parsed body unchanged.
C27_UnwrapOrBodyUnchanged ==
    \A c \in Callers :
        OkWithBody(c) =>
            outcome[c] =
                CASE op[c] = "getTopics" -> Resolved(Field(ResponseOf(c).body, "topics"))
                  [] op[c] = "getUnreadCount" ->
                        Resolved(Field(ResponseOf(c).body, "unread_count"))
                  [] OTHER -> Resolved(ResponseOf(c).body)

\* C27 as it holds: for an ok response whose body is a JSON object,
\* getUnreadCount resolves with its unread_count and getTopics with its
\* topics (both reject with a TypeError when the body is JSON null);
\* markAsRead and deleteDevice resolve with undefined whatever the body; the
\* other operations resolve with the parsed body unchanged.
C27_UnwrapVoidOrBodyUnchanged ==
    \A c \in Callers :
        OkWithBody(c) =>
            outcome[c] =
                CASE op[c] \in {"getTopics", "getUnreadCount"} ->
                        IF ResponseOf(c).body.t = "object"
                        THEN Resolved(Field(ResponseOf(c).body,
                                 IF op[c] = "getTopics" THEN "topics" ELSE "unread_count"))
                        ELSE Rejected(NativeError("TypeError", "Cannot read properties"))
                  [] op[c] \in {"markAsRead", "deleteDevice"} -> Resolved(Undefined)
                  [] OTHER -> Resolved(ResponseOf(c).body)

\* getUnreadCount resolved with the number of the body while getTickets
\* resolved with the same body unchanged
C27_Witness ==
    \E c, d \in Callers :
        /\ OkWithBody(c) /\ OkWithBody(d)
        /\ op[c] = "getUnreadCount" /\ outcome[c] = Resolved(Num(5))
        /\ op[d] = "getTickets"
        /\ outcome[d] = Resolved(ResponseOf(c).body)

----------------------------------------------------------------------------
(***************************************************************************)
(* Part 4: the device fingerprint probe (client/device-info.ts).  A user    *)
(* agent is a sequence of tokens; a token is a name, the separator after    *)
(* it, and the parts of the version that follows with their separator:      *)
(* "Chrome/120.0" is ["Chrome", "/", <<"120", "0">>, "."], "Mac OS X        *)
(* 10_15_7" is ["Mac OS X", " ", <<"10", "15", "7">>, "_"].  A regular      *)
(* expression of the probe matches a token by its name and separator and    *)
(* captures the longest run of characters of its class.                     *)
(***************************************************************************)

\* Tokens of a generated user agent.
MaxTokens == 3

AgentToken(name, sep, parts, vsep) ==
    [name |-> name, sep |-> sep, parts |-> parts, vsep |-> vsep]

RECURSIVE Join(_, _)
\* parts.join(sep)
Join(parts, sep) ==
    IF parts = <<>> THEN ""
    ELSE IF Len(parts) = 1 THEN parts[1]
    ELSE parts[1] \o sep \o Join(Tail(parts), sep)

\* the text of a token and of a user agent
TokenText(tk) ==
    IF tk.parts = <<>> THEN tk.name ELSE tk.name \o tk.sep \o Join(tk.parts, tk.vsep)

UserAgentText(ua) == Join([i \in DOMAIN ua |-> TokenText(ua[i])], " ")

\* ([\d.]+) or ([\d_]+) applied where the version of tk starts: the run of
\* digits and `cls` characters ("" when there is none, and no match)
Capture(tk, cls) ==
    IF tk.parts = <<>> THEN ""
    ELSE IF tk.vsep = cls THEN Join(tk.parts, tk.vsep)
    ELSE tk.parts[1]

\* the leftmost token of ua that /name sep ([\d cls]+)/ matches, 0 if none
Match(ua, name, sep, cls) ==
    LET hits == { i \in DOMAIN ua :
                     ua[i].name = name /\ ua[i].sep = sep /\ Capture(ua[i], cls) # "" }
    IN IF hits = {} THEN 0 ELSE CHOOSE i \in hits : \A j \in hits : i <= j

\* /name/.test(ua)
Contains(ua, name) == \E i \in DOMAIN ua : ua[i].name = name

\* s.replace(/_/g, '.') of a captured version
Dotted(tk, cls) ==
    IF tk.vsep = cls THEN Join(tk.parts, ".") ELSE tk.parts[1]

detectOSLinuxFirst(ua) ==
    IF Match(ua, "Windows NT", " ", ".") # 0
    THEN "Windows " \o Capture(ua[Match(ua, "Windows NT", " ", ".")], ".")
    ELSE IF Match(ua, "Mac OS X", " ", "_") # 0
    THEN "macOS " \o Dotted(ua[Match(ua, "Mac OS X", " ", "_")], "_")
    ELSE IF Contains(ua, "Linux") THEN "Linux"
    ELSE IF Match(ua, "Android", " ", ".") # 0
    THEN "Android " \o Capture(ua[Match(ua, "Android", " ", ".")], ".")
    ELSE IF Match(ua, "iPhone OS", " ", "_") # 0
    THEN "iOS " \o Dotted(ua[Match(ua, "iPhone OS", " ", "_")], "_")
    ELSE "Unknown"

detectOS(ua) ==
    IF Match(ua, "Windows NT", " ", ".") # 0
    THEN "Windows " \o Capture(ua[Match(ua, "Windows NT", " ", ".")], ".")
    ELSE IF Match(ua, "Mac OS X", " ", "_") # 0
    THEN "macOS " \o Dotted(ua[Match(ua, "Mac OS X", " ", "_")], "_")
    ELSE IF Match(ua, "Android", " ", ".") # 0
    THEN "Android " \o Capture(ua[Match(ua, "Android", " ", ".")], ".")
    ELSE IF Match(ua, "iPhone OS", " ", "_") # 0
    THEN "iOS " \o Dotted(ua[Match(ua, "iPhone OS", " ", "_")], "_")
    ELSE IF Contains(ua, "Linux") THEN "Linux"
    ELSE "Unknown"

detectBrowserChromeFirst(ua) ==
    IF Match(ua, "Chrome", "/", ".") # 0
    THEN "Chrome " \o Capture(ua[Match(ua, "Chrome", "/", ".")], ".")
    ELSE IF Match(ua, "Edg", "/", ".") # 0
    THEN "Edge " \o Capture(ua[Match(ua, "Edg", "/", ".")], ".")
    ELSE IF Match(ua, "Firefox", "/", ".") # 0
    THEN "Firefox " \o Capture(ua[Match(ua, "Firefox", "/", ".")], ".")
    ELSE IF Match(ua, "Safari", "/", ".") # 0 /\ ~Contains(ua, "Chrome")
    THEN "Safari " \o Capture(ua[Match(ua, "Safari", "/", ".")], ".")
    ELSE IF UserAgentText(ua) # "" THEN UserAgentText(ua) ELSE "Unknown"

detectBrowser(ua) ==
    IF Match(ua, "Edg", "/", ".") # 0
    THEN "Edge " \o Capture(ua[Match(ua, "Edg", "/", ".")], ".")
    ELSE IF Match(ua, "Chrome", "/", ".") # 0
    THEN "Chrome " \o Capture(ua[Match(ua, "Chrome", "/", ".")], ".")
    ELSE IF Match(ua, "Firefox", "/", ".") # 0
    THEN "Firefox " \o Capture(ua[Match(ua, "Firefox", "/", ".")], ".")
    ELSE IF Match(ua, "Safari", "/", ".") # 0 /\ ~Contains(ua, "Chrome")
    THEN "Safari " \o Capture(ua[Match(ua, "Safari", "/", ".")], ".")
    ELSE IF UserAgentText(ua) # "" THEN UserAgentText(ua) ELSE "Unknown"

\* The tokens browser detection is followed over: the four signatures, a
\* Chrome token with no version and a token of no known browser.
BrowserTokens ==
    { AgentToken("Edg", "/", <<"120", "0">>, "."),
      AgentToken("Chrome", "/", <<"119", "0">>, "."),
      AgentToken("Chrome", "/", <<>>, "."),
      AgentToken("Firefox", "/", <<"121", "0">>, "."),
      AgentToken("Safari", "/", <<"605", "1">>, "."),
      AgentToken("CustomBrowser", "/", <<"1", "0">>, ".") }

\* every user agent of at most MaxTokens of these tokens
BrowserAgents ==
    UNION { [1..n -> BrowserTokens] : n \in 0..MaxTokens }

\* detectBrowser(ua) is called on its own.
ApplyDetectBrowser(ua) ==
    /\ applied' = [fn |-> "detectBrowser", ua |-> ua, result |-> detectBrowser(ua)]
    /\ UNCHANGED <<clientVars, hookVars, mutationVars, probeVars, supportVars, liveVars, formVars>>

\* The tokens OS detection is followed over: the four signatures, a macOS
\* version written with dots, the bare "Mac OS X" of an iPhone's "like Mac OS
\* X", an Android token with no version, a Linux token and a token of no
\* known system.
OSTokens ==
    { AgentToken("Windows NT", " ", <<"10", "0">>, "."),
      AgentToken("Mac OS X", " ", <<"10", "15", "7">>, "_"),
      AgentToken("Mac OS X", " ", <<"10", "15">>, "."),
      AgentToken("Mac OS X", " ", <<>>, "_"),
      AgentToken("Android", " ", <<"14">>, "."),
      AgentToken("Android", " ", <<>>, "."),
      AgentToken("iPhone OS", " ", <<"17", "2", "1">>, "_"),
      AgentToken("Linux", " ", <<>>, "."),
      AgentToken("X11", " ", <<>>, ".") }

\* every user agent of at most MaxTokens of these tokens
OSAgents ==
    UNION { [1..n -> OSTokens] : n \in 0..MaxTokens }

\* detectOS(ua) is called on its own.
ApplyDetectOS(ua) ==
    /\ applied' = [fn |-> "detectOS", ua |-> ua, result |-> detectOS(ua)]
    /\ UNCHANGED <<clientVars, hookVars, mutationVars, probeVars, supportVars, liveVars, formVars>>

\* navigator.language and the resolved time zone are passed through
detectDeviceInfo(nav) ==
    [platform |-> Str("web"),
     os_version |-> Str(detectOS(IF nav.defined THEN nav.userAgent ELSE <<>>)),
     device_model |-> Str(detectBrowser(IF nav.defined THEN nav.userAgent ELSE <<>>)),
     locale |-> Str(IF nav.defined THEN nav.language ELSE "en"),
     timezone |-> Str(nav.timeZone)]

\* User agents of the environments the probe is called in
ChromeOnMac ==
    << AgentToken("Mozilla", "/", <<"5", "0">>, "."),
       AgentToken("Mac OS X", " ", <<"10", "15", "7">>, "_"),
       AgentToken("Chrome", "/", <<"120", "0", "0", "0">>, "."),
       AgentToken("Safari", "/", <<"537", "36">>, ".") >>

FirefoxOnWindows ==
    << AgentToken("Mozilla", "/", <<"5", "0">>, "."),
       AgentToken("Windows NT", " ", <<"10", "0">>, "."),
       AgentToken("Firefox", "/", <<"121", "0">>, ".") >>

EdgeOnWindows ==
    << AgentToken("Windows NT", " ", <<"10", "0">>, "."),
       AgentToken("Chrome", "/", <<"120", "0", "0", "0">>, "."),
       AgentToken("Safari", "/", <<"537", "36">>, "."),
       AgentToken("Edg", "/", <<"120", "0", "2210", "91">>, ".") >>

SafariOnIPhone ==
    << AgentToken("iPhone OS", " ", <<"17", "2">>, "_"),
       AgentToken("Version", "/", <<"17", "2">>, "."),
       AgentToken("Safari", "/", <<"605", "1", "15">>, ".") >>

\* The environments: no navigator at all, and a navigator with one of the
\* user agents (or an empty one), a language and a time zone.
Navigators ==
    { [defined |-> FALSE, userAgent |-> <<>>, language |-> "", timeZone |-> tz] :
         tz \in {"UTC", "Asia/Tokyo"} } \cup
    { [defined |-> TRUE, userAgent |-> ua, language |-> lang, timeZone |-> tz] :
         ua \in {<<>>, ChromeOnMac, FirefoxOnWindows, EdgeOnWindows, SafariOnIPhone},
         lang \in {"en-US", "ja-JP"},
         tz \in {"UTC", "Asia/Tokyo"} }

----------------------------------------------------------------------------
\* createTicket: the body it sends

DeviceFields == {"platform", "os_version", "device_model", "locale", "timezone"}

\* What a caller may pass for an optional field: nothing, an empty string, a
\* value of its own.
OptionalValues == { Undefined, Str(""), Str("from-caller") }

CreateTicketParams ==
    { [title |-> Str("Help"), platform |-> p, os_version |-> o, device_model |-> d,
       locale |-> l, timezone |-> z, app_version |-> a] :
         p \in OptionalValues, o \in OptionalValues, d \in OptionalValues,
         l \in OptionalValues, z \in OptionalValues, a \in OptionalValues }

\* config.appVersion
AppVersions == { Undefined, Str("2.3.0") }

\* JSON.stringify of an object: the keys whose value is undefined are left out
Stringify(object) ==
    [k \in { key \in DOMAIN object : object[key].t # "undefined" } |-> object[k]]

\* x || d
CoalesceFalsy(x, d) ==
    IF x.t \in {"undefined", "null"} \/ x = Str("") THEN d ELSE x

\* x ?? d in createTicket
OrElse(x, d) == Coalesce(x, d)

createTicketBodyProbeOnly(params, nav, appVersion) ==
    Stringify([k \in DOMAIN params |->
        IF k \in DeviceFields THEN detectDeviceInfo(nav)[k]
        ELSE IF k = "app_version" THEN OrElse(params[k], appVersion)
        ELSE params[k]])

\* the body createTicket hands to request: { ...params, platform: ..., ... }
createTicketBody(params, nav, appVersion) ==
    Stringify([k \in DOMAIN params |->
        IF k \in DeviceFields THEN OrElse(params[k], detectDeviceInfo(nav)[k])
        ELSE IF k = "app_version" THEN OrElse(params[k], appVersion)
        ELSE params[k]])

\* createTicket(params) is called on a client configured with appVersion in
\* the environment nav, up to the body it sends.
ApplyCreateTicket(params, nav, appVersion) ==
    /\ applied' = [fn |-> "createTicket", params |-> params, nav |-> nav,
                   appVersion |-> appVersion,
                   body |-> createTicketBody(params, nav, appVersion)]
    /\ UNCHANGED <<clientVars, hookVars, mutationVars, probeVars, supportVars, liveVars, formVars>>

----------------------------------------------------------------------------
\* buildQuery

\* What a caller may pass for page and per_page.
PageValues == { Undefined, JNull, Num(0), Num(2) }

\* no params object, or one with page and per_page
PaginationParams ==
    { Undefined } \cup
    { Obj([page |-> pg, per_page |-> pp]) : pg \in PageValues, pp \in PageValues }

\* the entries of the URLSearchParams buildQuery fills
SearchEntries(params) ==
    (IF Field(params, "page").t \notin {"undefined", "null"}
     THEN << <<"page", StringOf(Field(params, "page"))>> >> ELSE <<>>)
    \o
    (IF Field(params, "per_page").t \notin {"undefined", "null"}
     THEN << <<"per_page", StringOf(Field(params, "per_page"))>> >> ELSE <<>>)

\* URLSearchParams.toString()
SearchToString(entries) ==
    Join([i \in DOMAIN entries |-> entries[i][1] \o "=" \o entries[i][2]], "&")

buildQueryAlwaysMarked(params) ==
    IF params.t = "undefined" THEN ""
    ELSE "?" \o SearchToString(SearchEntries(params))

buildQuery(params) ==
    IF params.t = "undefined" THEN ""
    ELSE IF SearchToString(SearchEntries(params)) # ""
         THEN "?" \o SearchToString(SearchEntries(params))
         ELSE ""

\* getTickets(params) / getMessages(id, params), up to the path handed to
\* request.
ApplyBuildQuery(o, params) ==
    /\ o \in {"getTickets", "getMessages"}
    /\ applied' = [fn |-> "buildQuery", op |-> o, params |-> params,
                   entries |-> IF params.t = "undefined" THEN <<>> ELSE SearchEntries(params),
                   query |-> buildQuery(params),
                   path |-> Path(o) \o buildQuery(params)]
    /\ UNCHANGED <<clientVars, hookVars, mutationVars, probeVars, supportVars, liveVars, formVars>>

----------------------------------------------------------------------------
\* The base URL.  A URL is a sequence of characters.

\* Characters of a configured base URL.
MaxBaseLen == 4

BaseChars == {"h", "/"}

BaseUrls == UNION { [1..n -> BaseChars] : n \in 0..MaxBaseLen }

\* the paths of getTopics and getTicket, as characters
RequestPaths == { <<"/", "t">>, <<"/", "t", "/", "i">> }

\* (the mutant removes one trailing separator only)
StripOneTrailing(url) ==
    IF url # <<>> /\ url[Len(url)] = "/" THEN SubSeq(url, 1, Len(url) - 1) ELSE url

RECURSIVE StripTrailing(_)
\* baseUrl.replace(/\/+$/, '')
StripTrailing(url) ==
    IF url # <<>> /\ url[Len(url)] = "/"
    THEN StripTrailing(SubSeq(url, 1, Len(url) - 1))
    ELSE url

\* this.baseUrl of a client constructed with config.baseUrl = configured
ConstructedBaseUrl(configured) == StripTrailing(configured)

\* `${this.baseUrl}${path}`
RequestUrl(baseUrl, path) == baseUrl \o path

\* A client is constructed with the base URL and requests path.
ApplyRequestUrl(configured, path) ==
    /\ applied' = [fn |-> "request", configured |-> configured, urlPath |-> path,
                   baseUrl |-> ConstructedBaseUrl(configured),
                   url |-> RequestUrl(ConstructedBaseUrl(configured), path)]
    /\ UNCHANGED <<clientVars, hookVars, mutationVars, probeVars, supportVars, liveVars, formVars>>

\* Each behaviour applies one function to one input.
AppliedNext ==
    \/ applied.fn = "none" /\ \E ua \in BrowserAgents : ApplyDetectBrowser(ua)
    \/ applied.fn = "none" /\
          \E params \in CreateTicketParams, nav \in Navigators, appVersion \in AppVersions :
             ApplyCreateTicket(params, nav, appVersion)
    \/ applied.fn = "none" /\
          \E o \in {"getTickets", "getMessages"}, params \in PaginationParams :
             ApplyBuildQuery(o, params)
    \/ applied.fn = "none" /\
          \E configured \in BaseUrls, path \in RequestPaths :
             ApplyRequestUrl(configured, path)
    \/ applied.fn = "none" /\ \E ua \in OSAgents : ApplyDetectOS(ua)

SpecApplied == Init /\ [][AppliedNext]_vars

----------------------------------------------------------------------------
(***************************************************************************)
(* Properties of the functions applied on their own.                        *)
(***************************************************************************)

\* the caller supplied a value for the field
Supplied(params, k) == params[k].t # "undefined"

\* C23: in the body sent by createTicket, each of platform, os_version,
\* device_model, locale and timezone is the caller's value when the caller
\* supplied one, and otherwise the field of the probe's output for the
\* current environment, each field on its own.
C23_DeviceFieldsCallerThenProbe ==
    applied.fn = "createTicket" =>
        \A k \in DeviceFields :
            /\ k \in DOMAIN applied.body
            /\ applied.body[k] =
                  IF Supplied(applied.params, k) THEN applied.params[k]
                  ELSE detectDeviceInfo(applied.nav)[k]

\* the caller supplied the platform and an empty locale but no os_version,
\* in an environment whose OS is detected
C23_Witness ==
    /\ applied.fn = "createTicket"
    /\ applied.params.platform = Str("from-caller")
    /\ applied.params.locale = Str("")
    /\ applied.params.os_version = Undefined
    /\ applied.body.platform = Str("from-caller")
    /\ applied.body.locale = Str("")
    /\ applied.body.os_version = Str("macOS 10.15.7")

\* C24: the app_version sent by createTicket is the caller's when the caller
\* supplied one, otherwise the appVersion of the configuration, and absent
\* when neither is set.
C24_AppVersionCallerThenConfig ==
    applied.fn = "createTicket" =>
        IF Supplied(applied.params, "app_version")
        THEN "app_version" \in DOMAIN applied.body
                /\ applied.body["app_version"] = applied.params["app_version"]
        ELSE IF applied.appVersion.t # "undefined"
        THEN "app_version" \in DOMAIN applied.body
                /\ applied.body["app_version"] = applied.appVersion
        ELSE "app_version" \notin DOMAIN applied.body

\* the caller supplied an empty app_version on a client configured with one
C24_Witness ==
    /\ applied.fn = "createTicket"
    /\ applied.params.app_version = Str("")
    /\ applied.appVersion = Str("2.3.0")
    /\ applied.body.app_version = Str("")

\* the value supplied for key, "" when none was (no params, key undefined or
\* null)
SuppliedText(params, key) ==
    IF Field(params, key).t = "number" THEN ToString(Field(params, key).n) ELSE ""

\* C25: for every combination of present and absent page and per_page, the
\* query string built for getTickets and getMessages has exactly the
\* supplied keys, page before per_page, and is empty (no '?') when neither
\* is supplied or there is no params object.
C25_QueryHasSuppliedKeys ==
    applied.fn = "buildQuery" =>
        LET page == SuppliedText(applied.params, "page")
            perPage == SuppliedText(applied.params, "per_page")
        IN /\ applied.query =
                 CASE page # "" /\ perPage # "" -> "?page=" \o page \o "&per_page=" \o perPage
                   [] page # "" /\ perPage = "" -> "?page=" \o page
                   [] page = "" /\ perPage # "" -> "?per_page=" \o perPage
                   [] OTHER -> ""
           /\ [i \in DOMAIN applied.entries |-> applied.entries[i][1]] =
                 (IF page # "" THEN <<"page">> ELSE <<>>) \o
                 (IF perPage # "" THEN <<"per_page">> ELSE <<>>)
           /\ applied.path = Path(applied.op) \o applied.query

\* page 0 and per_page 2 for getMessages
C25_Witness ==
    /\ applied.fn = "buildQuery"
    /\ applied.op = "getMessages"
    /\ applied.params = Obj([page |-> Num(0), per_page |-> Num(2)])
    /\ applied.path = "/tickets/t1/messages?page=0&per_page=2"

\* the characters of url before its trailing '/' characters
Stem(url) ==
    LET last == { i \in DOMAIN url : url[i] # "/" }
    IN IF last = {} THEN 0 ELSE CHOOSE i \in last : \A j \in last : j <= i

\* C26: for every configured base URL ending in zero or more '/', the URL
\* of a transport call has exactly one '/' between the base and the
\* operation path; the trailing separators are stripped at construction.
C26_OneSeparator ==
    applied.fn = "request" =>
        LET k == Stem(applied.configured) IN
           /\ applied.baseUrl = SubSeq(applied.configured, 1, k)
           /\ Len(applied.url) = k + Len(applied.urlPath)
           /\ SubSeq(applied.url, 1, k) = SubSeq(applied.configured, 1, k)
           /\ SubSeq(applied.url, k + 1, Len(applied.url)) = applied.urlPath
           /\ k > 0 => applied.url[k] # "/"
           /\ applied.url[k + 1] = "/"
           /\ applied.url[k + 2] # "/"

\* a base URL configured with two trailing separators
C26_Witness ==
    /\ applied.fn = "request"
    /\ applied.configured = <<"h", "h", "/", "/">>
    /\ applied.url = <<"h", "h", "/", "t", "/", "i">>

\* the token of ua that carries the signature name followed by a version
Signature(ua, name) ==
    LET hits == { i \in DOMAIN ua : ua[i].name = name /\ ua[i].parts # <<>> }
    IN IF hits = {} THEN <<>>
       ELSE <<ua[CHOOSE i \in hits : \A j \in hits : i <= j]>>

\* C28: browser detection follows a fixed priority over the signatures in
\* the identifying string: Edge if an Edge token is present (even with a
\* Chrome token), else Chrome, else Firefox, else Safari only when no Chrome
\* token is present, else the raw string, and "Unknown" when it is empty.
C28_BrowserPriority ==
    applied.fn = "detectBrowser" =>
        LET ua == applied.ua
            version(name) == Join(Signature(ua, name)[1].parts, ".")
        IN applied.result =
              CASE Signature(ua, "Edg") # <<>> -> "Edge " \o version("Edg")
                [] Signature(ua, "Edg") = <<>> /\ Signature(ua, "Chrome") # <<>> ->
                      "Chrome " \o version("Chrome")
                [] Signature(ua, "Edg") = <<>> /\ Signature(ua, "Chrome") = <<>>
                      /\ Signature(ua, "Firefox") # <<>> ->
                      "Firefox " \o version("Firefox")
                [] Signature(ua, "Edg") = <<>> /\ Signature(ua, "Chrome") = <<>>
                      /\ Signature(ua, "Firefox") = <<>>
                      /\ Signature(ua, "Safari") # <<>>
                      /\ \A i \in DOMAIN ua : ua[i].name # "Chrome" ->
                      "Safari " \o version("Safari")
                [] OTHER -> IF ua = <<>> THEN "Unknown" ELSE UserAgentText(ua)

\* a Chrome token comes first and an Edge token follows
C28_Witness ==
    /\ applied.fn = "detectBrowser"
    /\ Len(applied.ua) >= 2
    /\ applied.ua[1].name = "Chrome" /\ applied.ua[1].parts # <<>>
    /\ applied.ua[2].name = "Edg"
    /\ applied.result = "Edge 120.0"

----------------------------------------------------------------------------
\* Part 5.  detectDeviceInfo called again and again in one environment.
\*
\* navigator is the environment's navigator and Intl time zone; lastParen is
\* RegExp.$1, the static every regular expression test of the page writes on
\* a match and detectOS / detectBrowser read back; probeLog keeps what each
\* call read and what it returned.

MaxProbes == 3

\* RegExp.$1 as the pieces of a version and the separator between them
NoParen == [parts |-> <<>>, sep |-> "."]

ParenText(p) == Join(p.parts, p.sep)

\* /name sep ([\d cls]+)/.test(ua): a match writes RegExp.$1, a failure
\* leaves it as it was (the mutant never writes it)
ExecStale(ua, name, sep, cls, paren) ==
    [ok |-> Match(ua, name, sep, cls) # 0, paren |-> paren]

Exec(ua, name, sep, cls, paren) ==
    IF Match(ua, name, sep, cls) # 0
    THEN [ok |-> TRUE,
          paren |-> [parts |-> IF ua[Match(ua, name, sep, cls)].vsep = cls
                               THEN ua[Match(ua, name, sep, cls)].parts
                               ELSE <<ua[Match(ua, name, sep, cls)].parts[1]>>,
                     sep |-> cls]]
    ELSE [ok |-> FALSE, paren |-> paren]

\* /name/.test(ua): a match of a pattern without a group empties RegExp.$1
ExecPlain(ua, name, paren) ==
    IF Contains(ua, name) THEN [ok |-> TRUE, paren |-> NoParen]
    ELSE [ok |-> FALSE, paren |-> paren]

\* RegExp.$1.replace(/_/g, '.'): the text, and RegExp.$1 after the replace
ReplaceUnderscores(paren) ==
    [text |-> Join(paren.parts, "."),
     paren |-> IF paren.sep = "_" /\ Len(paren.parts) > 1 THEN NoParen ELSE paren]

\* detectOS with the static it reads and leaves behind
detectOSFrom(ua, paren) ==
    LET w == Exec(ua, "Windows NT", " ", ".", paren)
        m == Exec(ua, "Mac OS X", " ", "_", w.paren)
        a == Exec(ua, "Android", " ", ".", m.paren)
        i == Exec(ua, "iPhone OS", " ", "_", a.paren)
        l == ExecPlain(ua, "Linux", i.paren)
    IN IF w.ok THEN [text |-> "Windows " \o ParenText(w.paren), paren |-> w.paren]
       ELSE IF m.ok THEN [text |-> "macOS " \o ReplaceUnderscores(m.paren).text,
                          paren |-> ReplaceUnderscores(m.paren).paren]
       ELSE IF a.ok THEN [text |-> "Android " \o ParenText(a.paren), paren |-> a.paren]
       ELSE IF i.ok THEN [text |-> "iOS " \o ReplaceUnderscores(i.paren).text,
                          paren |-> ReplaceUnderscores(i.paren).paren]
       ELSE IF l.ok THEN [text |-> "Linux", paren |-> l.paren]
       ELSE [text |-> "Unknown", paren |-> l.paren]

\* detectBrowser with the static it reads and leaves behind
detectBrowserFrom(ua, paren) ==
    LET e == Exec(ua, "Edg", "/", ".", paren)
        c == Exec(ua, "Chrome", "/", ".", e.paren)
        f == Exec(ua, "Firefox", "/", ".", c.paren)
        s == Exec(ua, "Safari", "/", ".", f.paren)
        n == IF s.ok THEN ExecPlain(ua, "Chrome", s.paren)
             ELSE [ok |-> FALSE, paren |-> s.paren]
    IN IF e.ok THEN [text |-> "Edge " \o ParenText(e.paren), paren |-> e.paren]
       ELSE IF c.ok THEN [text |-> "Chrome " \o ParenText(c.paren), paren |-> c.paren]
       ELSE IF f.ok THEN [text |-> "Firefox " \o ParenText(f.paren), paren |-> f.paren]
       ELSE IF s.ok /\ ~n.ok
            THEN [text |-> "Safari " \o ParenText(n.paren), paren |-> n.paren]
       ELSE [text |-> IF ua = <<>> THEN "Unknown" ELSE UserAgentText(ua),
             paren |-> n.paren]

\* detectDeviceInfo(), reading the environment nav and the static paren
detectDeviceInfoFrom(nav, paren) ==
    LET ua == IF nav.defined THEN nav.userAgent ELSE <<>>
        os == detectOSFrom(ua, paren)
        browser == detectBrowserFrom(ua, os.paren)
    IN [info |-> [platform |-> Str("web"),
                  os_version |-> Str(os.text),
                  device_model |-> Str(browser.text),
                  locale |-> Str(IF nav.defined THEN nav.language ELSE "en"),
                  timezone |-> Str(nav.timeZone)],
        paren |-> browser.paren]

\* Environments the probe is called in
ProbeNavigators ==
    { nav \in Navigators :
         /\ nav.userAgent \in {<<>>, ChromeOnMac, FirefoxOnWindows}
         /\ nav.language # "ja-JP" \/ nav.timeZone = "UTC" }

\* The page moves to another environment (another user agent, locale or zone)
SetNavigator(nav) ==
    /\ nav # navigator
    /\ navigator' = nav
    /\ UNCHANGED <<lastParen, probeLog>>

\* Some other code of the page runs a regular expression test
OtherTest(parts) ==
    /\ lastParen # [parts |-> parts, sep |-> "."]
    /\ lastParen' = [parts |-> parts, sep |-> "."]
    /\ UNCHANGED <<navigator, probeLog>>

\* One call of detectDeviceInfo()
Detect ==
    /\ Len(probeLog) < MaxProbes
    /\ probeLog' = Append(probeLog,
                          [nav |-> navigator,
                           result |-> detectDeviceInfoFrom(navigator, lastParen).info])
    /\ lastParen' = detectDeviceInfoFrom(navigator, lastParen).paren
    /\ UNCHANGED navigator

ProbeNext ==
    \/ \E nav \in ProbeNavigators : SetNavigator(nav)
          /\ UNCHANGED <<clientVars, hookVars, mutationVars, appliedVars, supportVars, liveVars, formVars>>
    \/ \E parts \in {<<>>, <<"9", "9">>} : OtherTest(parts)
          /\ UNCHANGED <<clientVars, hookVars, mutationVars, appliedVars, supportVars, liveVars, formVars>>
    \/ Detect
          /\ UNCHANGED <<clientVars, hookVars, mutationVars, appliedVars, supportVars, liveVars, formVars>>

SpecProbe == Init /\ [][ProbeNext]_vars

\* C29: detectDeviceInfo is deterministic: any two calls that read the same
\* user agent, locale and time zone returned equal results, whatever calls
\* with other inputs (and whatever other regular expression tests) happened
\* in between.
C29_SameInputsSameResult ==
    \A i, j \in DOMAIN probeLog :
        probeLog[i].nav = probeLog[j].nav => probeLog[i].result = probeLog[j].result

\* two calls in the same environment with a call in another one in between
C29_Witness ==
    /\ Len(probeLog) = 3
    /\ probeLog[1].nav = probeLog[3].nav
    /\ probeLog[2].nav # probeLog[1].nav
    /\ probeLog[1].nav.defined /\ probeLog[2].nav.defined
    /\ probeLog[1].nav.userAgent = ChromeOnMac
    /\ probeLog[2].nav.userAgent = FirefoxOnWindows
    /\ probeLog[1].result.os_version = Str("macOS 10.15.7")
    /\ probeLog[3].result = probeLog[1].result
    /\ probeLog[2].result # probeLog[1].result

----------------------------------------------------------------------------
\* Part 6.  AsqioSupport: the main entry, switching between the list, detail
\* and new-thread views.

MaxClicks == 6

\* Ids of the tickets ThreadList offers, and of the ticket NewThreadForm
\* hands to onCreated
ListedTickets == {"ticket-1", "ticket-2"}
CreatedTickets == {"ticket-new"}

\* What AsqioSupport renders: the test ids on screen and the ticket id the
\* detail shows
Rendered(v, id) ==
    [shown |-> (IF v = "list" THEN {"thread-list"} ELSE {})
                  \cup (IF v = "detail" THEN {"thread-detail"} ELSE {})
                  \cup (IF v = "new" THEN {"new-thread-form"} ELSE {}),
     detailTicketId |-> IF v = "detail" THEN id ELSE JNull]

Clicked(event, id, v, sel) ==
    Append(clicks, [event |-> event, id |-> id, screen |-> Rendered(v, sel)])

\* ThreadList onSelectTicket(ticket), id the id of the ticket
SelectTicket(id) ==
    /\ view = "list"
    /\ Len(clicks) < MaxClicks
    /\ view' = "detail"
    /\ selectedId' = Str(id)
    /\ clicks' = Clicked("select", Str(id), "detail", Str(id))

\* ThreadList onNewThread
NewThread ==
    /\ view = "list"
    /\ Len(clicks) < MaxClicks
    /\ view' = "new"
    /\ UNCHANGED selectedId
    /\ clicks' = Clicked("new", JNull, "new", selectedId)

\* ThreadDetail onBack; the id it leaves is kept or dropped
Back ==
    /\ view = "detail"
    /\ Len(clicks) < MaxClicks
    /\ view' = "list"
    /\ selectedId' \in {selectedId, JNull}
    /\ clicks' = Clicked("back", JNull, "list", selectedId')

\* NewThreadForm onCancel
Cancel ==
    /\ view = "new"
    /\ Len(clicks) < MaxClicks
    /\ view' = "list"
    /\ UNCHANGED selectedId
    /\ clicks' = Clicked("cancel", JNull, "list", selectedId)

\* NewThreadForm onCreated(ticket) (the mutant returns to the list)
TicketCreatedToList(id) ==
    /\ view = "new"
    /\ Len(clicks) < MaxClicks
    /\ view' = "list"
    /\ selectedId' = Str(id)
    /\ clicks' = Clicked("created", Str(id), "list", Str(id))

TicketCreated(id) ==
    /\ view = "new"
    /\ Len(clicks) < MaxClicks
    /\ view' = "detail"
    /\ selectedId' = Str(id)
    /\ clicks' = Clicked("created", Str(id), "detail", Str(id))

SupportNext ==
    \/ \E id \in ListedTickets : SelectTicket(id)
          /\ UNCHANGED <<clientVars, hookVars, mutationVars, appliedVars, probeVars, liveVars, formVars>>
    \/ NewThread
          /\ UNCHANGED <<clientVars, hookVars, mutationVars, appliedVars, probeVars, liveVars, formVars>>
    \/ Back
          /\ UNCHANGED <<clientVars, hookVars, mutationVars, appliedVars, probeVars, liveVars, formVars>>
    \/ Cancel
          /\ UNCHANGED <<clientVars, hookVars, mutationVars, appliedVars, probeVars, liveVars, formVars>>
    \/ \E id \in CreatedTickets : TicketCreated(id)
          /\ UNCHANGED <<clientVars, hookVars, mutationVars, appliedVars, probeVars, liveVars, formVars>>

SpecSupport == Init /\ [][SupportNext]_vars

\* The screen a click must lead to
ExpectedScreen(click) ==
    IF click.event \in {"select", "created"}
    THEN [shown |-> {"thread-detail"}, detailTicketId |-> click.id]
    ELSE IF click.event = "new"
    THEN [shown |-> {"new-thread-form"}, detailTicketId |-> JNull]
    ELSE [shown |-> {"thread-list"}, detailTicketId |-> JNull]

\* C30: AsqioSupport shows exactly one of the list, detail and new-thread
\* views at any time: it starts on the list; selecting a ticket shows the
\* detail of that ticket id; requesting a new thread shows the form; back and
\* cancel return to the list; a created ticket leads to the detail of the
\* created ticket's id.
C30_OneViewAndNavigation ==
    /\ Cardinality(Rendered(view, selectedId).shown) = 1
    /\ clicks = <<>> => Rendered(view, selectedId).shown = {"thread-list"}
    /\ \A i \in DOMAIN clicks : clicks[i].screen = ExpectedScreen(clicks[i])
    /\ clicks # <<>> => Rendered(view, selectedId) = clicks[Len(clicks)].screen

\* list -> detail -> list -> new -> detail of the created ticket
C30_Witness ==
    /\ Len(clicks) = 4
    /\ clicks[1].event = "select" /\ clicks[1].id = Str("ticket-1")
    /\ clicks[2].event = "back"
    /\ clicks[3].event = "new"
    /\ clicks[4].event = "created"
    /\ Rendered(view, selectedId) =
          [shown |-> {"thread-detail"}, detailTicketId |-> Str("ticket-new")]

----------------------------------------------------------------------------
\* Further properties of the query hooks.

\* the fetches of h that are still in flight
InFlight(h) == { k \in DOMAIN hFetches[h] : hFetches[h][k].state = "pending" }

\* C31: loading is true in every state in which at least one fetch of the
\* hook instance is still in flight, also when several fetches overlap.
C31_LoadingWhileAnyInFlight ==
    \A h \in Hooks :
        (hMounted[h] = "yes" /\ InFlight(h) # {}) => hLoading[h]

\* C31 as it holds: loading is true exactly from a trigger until the next
\* settlement of any fetch of the instance; while it is true a fetch is in
\* flight, but a fetch may still be in flight when it is false.
C31_LoadingFromTriggerToSettlement ==
    \A h \in Hooks :
        hMounted[h] = "yes" =>
            /\ hLoading[h] <=> hLast[h].ev = "trigger"
            /\ hLoading[h] => InFlight(h) # {}

\* the mount fetch and a refetch overlapped; one has settled, the other is
\* still in flight
C31_Witness ==
    \E h \in Hooks :
        /\ hMounted[h] = "yes"
        /\ Len(hFetches[h]) = 2
        /\ hFetches[h][2].by = "refetch"
        /\ Len(hSettled[h]) = 1
        /\ Cardinality(InFlight(h)) = 1
        /\ ~hLoading[h]

\* C32: the topics of useTopics are [] while no fetch has succeeded, and
\* else the result of the successful fetch that settled last; a fetch that
\* settles with failure leaves them as they were.
C32_TopicsAreLastSuccess ==
    \A h \in Hooks :
        (hMounted[h] = "yes" /\ hKind[h] = "topics") =>
            hData[h] = IF Successes(h, hSettled[h]) = <<>> THEN Arr(<<>>)
                       ELSE Successes(h, hSettled[h])[Len(Successes(h, hSettled[h]))]

\* a fetch of the topics succeeded with a list and a later one failed
C32_Witness ==
    \E h \in Hooks :
        /\ hMounted[h] = "yes" /\ hKind[h] = "topics"
        /\ Len(hSettled[h]) = 2
        /\ hFetches[h][hSettled[h][1]].state = "fulfilled"
        /\ hFetches[h][hSettled[h][2]].state = "rejected"
        /\ hLast[h].ev = "rejected"
        /\ hData[h] = hFetches[h][hSettled[h][1]].value
        /\ hData[h] # Arr(<<>>)

\* the timers of h that have been scheduled and not torn down
LiveTimers(h) == { i \in DOMAIN hTimers[h] : hTimers[h][i].live }

\* C33: a polling hook instance owns at most one live timer at any time:
\* across mounts, interval changes, fetch failures and unmount, every timer
\* scheduled before the newest one has been torn down, and none is live
\* after unmount.
C33_AtMostOneLiveTimer ==
    \A h \in Hooks :
        /\ Cardinality(LiveTimers(h)) <= 1
        /\ \A i \in DOMAIN hTimers[h] : i < Len(hTimers[h]) => ~hTimers[h][i].live
        /\ hMounted[h] = "gone" => LiveTimers(h) = {}

\* a timer fired, a fetch failed, the interval changed and a second timer was
\* scheduled, and then the hook was unmounted
C33_Witness ==
    \E h \in Hooks :
        /\ hMounted[h] = "gone"
        /\ Len(hTimers[h]) = 2
        /\ hTimers[h][1].fires >= 1
        /\ hTimers[h][1].interval # hTimers[h][2].interval
        /\ \E k \in DOMAIN hFetches[h] : hFetches[h][k].state = "rejected"
        /\ LiveTimers(h) = {}

\* C34: in the polling hook with a positive interval the recurring timer is
\* scheduled only once the initial fetch has completed, so no fetch is
\* started by a poll tick while the initial fetch is still in flight.
C34_TimerAfterInitialFetch ==
    \A h \in Hooks :
        (hTimers[h] # <<>> \/ StartedBy(h, "poll") # {}) =>
            /\ InitialFetchDone(hFetches[h])
            /\ hFetches[h][1].by = "mount"

\* time passed while the initial fetch was in flight, the timer was scheduled
\* when it completed, and a poll tick has started a fetch since
C34_Witness ==
    \E h \in Hooks :
        /\ hMounted[h] = "yes" /\ hInterval[h] > 0 /\ hChanges[h] = 0
        /\ Len(hTimers[h]) = 1
        /\ hTimers[h][1].age < clock
        /\ StartedBy(h, "poll") # {}

\* C35: a query hook never exposes loading = false before its first fetch
\* has settled: from mount until the first settlement loading is true, the
\* data is empty ([] for lists, null for the detail, 0 for the unread count)
\* and error is null.
C35_LoadingUntilFirstSettlement ==
    \A h \in Hooks :
        (hMounted[h] = "yes" /\ hSettled[h] = <<>>) =>
            /\ hLoading[h]
            /\ hData[h] = EmptyData(hKind[h])
            /\ hError[h] = JNull

\* refetch was called while the mount fetch was in flight; nothing has
\* settled yet
C35_Witness ==
    \E h \in Hooks :
        /\ hMounted[h] = "yes" /\ hSettled[h] = <<>>
        /\ Len(hFetches[h]) = 2
        /\ hFetches[h][2].by = "refetch"
        /\ hKind[h] = "ticket"
        /\ hLoading[h] /\ hData[h] = JNull

----------------------------------------------------------------------------
\* Part 7.  Several hook instances rendered under one provider, sharing its
\* AsqioClient: their triggers and the settlements of their requests
\* interleave in any order.

\* the hooks rendered side by side
InstanceKinds == {"topics", "unreadCount"}

InstancesNext ==
    \/ \E h \in Hooks, kind \in InstanceKinds :
          Mount(h, kind, 0) /\ UNCHANGED <<clientVars, mutationVars, appliedVars, probeVars, supportVars, liveVars, formVars>>
    \/ \E h \in Hooks :
          Refetch(h) /\ UNCHANGED <<clientVars, mutationVars, appliedVars, probeVars, supportVars, liveVars, formVars>>
    \/ \E h \in Hooks, k \in 1..MaxFetches, r \in UNION { HookResults(q) : q \in InstanceKinds } :
          FetchFulfilled(h, k, r) /\ UNCHANGED <<clientVars, mutationVars, appliedVars, probeVars, supportVars, liveVars, formVars>>
    \/ \E h \in Hooks, k \in 1..MaxFetches, e \in HookRejections :
          FetchRejected(h, k, e) /\ UNCHANGED <<clientVars, mutationVars, appliedVars, probeVars, supportVars, liveVars, formVars>>
    \/ \E h \in Hooks :
          Unmount(h) /\ UNCHANGED <<clientVars, mutationVars, appliedVars, probeVars, supportVars, liveVars, formVars>>

SpecInstances == Init /\ [][InstancesNext]_vars

\* the step is a trigger or a settlement on instance h
ActsOn(h) == hFetches'[h] # hFetches[h]

\* C36: a trigger or a settlement on one hook instance never changes the
\* loading, error or data of any other instance, also when the requests of
\* the instances interleave on the client they share.
C36_InstancesAreIndependent ==
    [][\A h \in Hooks : ActsOn(h) =>
          \A g \in Hooks \ {h} :
              /\ hLoading'[g] = hLoading[g]
              /\ hError'[g] = hError[g]
              /\ hData'[g] = hData[g]]_vars

\* two topics instances whose requests interleaved: one holds a failure and
\* no topics, the other the topics it fetched
C36_Witness ==
    /\ hMounted["h1"] = "yes" /\ hMounted["h2"] = "yes"
    /\ hKind["h1"] = "topics" /\ hKind["h2"] = "topics"
    /\ hSettled["h1"] # <<>> /\ hSettled["h2"] # <<>>
    /\ hError["h1"] # JNull /\ hData["h1"] = Arr(<<>>)
    /\ hError["h2"] = JNull /\ hData["h2"] # Arr(<<>>)
    /\ hLast["h1"].ev = "rejected"

----------------------------------------------------------------------------
\* Part 8.  The topics hook followed down to the client: every fetch of the
\* hook is an invocation of getTopics, and the continuation of the fetch runs
\* when that invocation has settled.

\* what the transport answers GET /topics with
LiveResponses ==
    { resp \in Responses :
         resp.body \in { ParseFailure,
                         Obj([topics |-> Arr(<<Str("billing"), Str("bug")>>),
                              unread_count |-> Num(5)]),
                         Obj([error |-> Str("Validation failed"),
                              code |-> Str("VALIDATION_ERROR")]) } }

\* what the token provider and the transport reject with
LiveRejections == { NativeError("TypeError", "Failed to fetch"), Str("offline") }

NotServing == [h |-> "", k |-> 0]

\* useTopics is rendered: the effect runs fetchTopics, which calls
\* client.getTopics()
LiveMount(h, c) ==
    /\ Mount(h, "topics", 0)
    /\ Call(c, "getTopics")
    /\ serving' = [serving EXCEPT ![c] = [h |-> h, k |-> 1]]

\* refetch(): fetchTopics calls client.getTopics()
LiveRefetch(h, c) ==
    /\ Refetch(h)
    /\ Call(c, "getTopics")
    /\ serving' = [serving EXCEPT ![c] = [h |-> h, k |-> Len(hFetches[h]) + 1]]

\* the token provider or the transport settles for the invocation of c
ClientSettles(c) ==
    \/ TokenResolve(c)
    \/ \E e \in LiveRejections : TokenReject(c, e)
    \/ \E e \in LiveRejections : FetchReject(c, e)
    \/ \E resp \in LiveResponses : FetchResolve(c, resp)
    \/ JsonSettle(c)

\* the continuation of fetchTopics after `await client.getTopics()` (the
\* mutant is never resumed)
LiveSettleNever(c) ==
    /\ pc[c] = "done"
    /\ serving[c] # NotServing
    /\ Return(c)
    /\ serving' = [serving EXCEPT ![c] = NotServing]
    /\ UNCHANGED hookVars

LiveSettle(c) ==
    /\ pc[c] = "done"
    /\ serving[c] # NotServing
    /\ Return(c)
    /\ IF outcome[c].kind = "resolved"
       THEN FetchFulfilled(serving[c].h, serving[c].k, outcome[c].value)
       ELSE FetchRejected(serving[c].h, serving[c].k, outcome[c].value)
    /\ serving' = [serving EXCEPT ![c] = NotServing]

\* everything that moves the invocation of c on without a new trigger
Progress(c) ==
    \/ ClientSettles(c) /\ UNCHANGED <<hookVars, mutationVars, appliedVars, probeVars,
                                       supportVars, liveVars, formVars>>
    \/ LiveSettle(c) /\ UNCHANGED <<mutationVars, appliedVars, probeVars, supportVars,
                                    formVars>>

LiveNext ==
    \/ \E h \in Alone, c \in Callers :
          LiveMount(h, c) /\ UNCHANGED <<mutationVars, appliedVars, probeVars, supportVars,
                                         formVars>>
    \/ \E h \in Alone, c \in Callers :
          LiveRefetch(h, c) /\ UNCHANGED <<mutationVars, appliedVars, probeVars, supportVars,
                                           formVars>>
    \/ \E c \in Callers : Progress(c)

\* The token provider, the transport and the body reader always eventually
\* settle, and a continuation whose promise has settled is eventually run.
SpecLive == Init /\ [][LiveNext]_vars /\ \A c \in Callers : WF_vars(Progress(c))

\* C37: if the token provider and the transport always eventually settle,
\* every operation of the client eventually settles; and, the triggers having
\* stopped, the query hook eventually reaches loading = false with no fetch
\* in flight and stays there.
C37_EventuallySettled ==
    /\ \A c \in Callers : (pc[c] \in {"awaitToken", "awaitFetch", "awaitJson"}) ~> (pc[c] = "done")
    /\ <>[](\A h \in Hooks : hMounted[h] = "yes" => (~hLoading[h] /\ InFlight(h) = {}))

\* the mount fetch and a refetch overlapped, every request has settled, one
\* through a rejecting token provider and one with the topics
C37_Witness ==
    \E h \in Alone :
        /\ hMounted[h] = "yes"
        /\ Len(hFetches[h]) = 2 /\ InFlight(h) = {}
        /\ \E k \in DOMAIN hFetches[h] :
              /\ hFetches[h][k].state = "rejected"
              /\ hFetches[h][k].value = AsqioNetworkError("Failed to retrieve auth token", Str("offline"))
        /\ \E k \in DOMAIN hFetches[h] : hFetches[h][k].state = "fulfilled"
        /\ ~hLoading[h]
        /\ \A c \in Callers : pc[c] = "idle"

----------------------------------------------------------------------------
\* Further properties of the functions applied on their own.

\* the version a signature's pattern captures from token tk, with every "_"
\* written as "."
SignatureVersion(tk, cls) ==
    IF tk.vsep = cls THEN Join(tk.parts, ".") ELSE tk.parts[1]

\* C38: OS detection follows a fixed priority over the signatures (a name
\* followed by a version) in the identifying string: Windows, else macOS,
\* else Android, else iOS, else Linux when a Linux token is present, else
\* "Unknown"; a string with an Android signature and a Linux token is
\* reported as Android.
C38_OSPriority ==
    applied.fn = "detectOS" =>
        LET ua == applied.ua
            has(name) == Signature(ua, name) # <<>>
            version(name, cls) == SignatureVersion(Signature(ua, name)[1], cls)
        IN /\ applied.result =
                 CASE has("Windows NT") -> "Windows " \o version("Windows NT", ".")
                   [] ~has("Windows NT") /\ has("Mac OS X") ->
                         "macOS " \o version("Mac OS X", "_")
                   [] ~has("Windows NT") /\ ~has("Mac OS X") /\ has("Android") ->
                         "Android " \o version("Android", ".")
                   [] ~has("Windows NT") /\ ~has("Mac OS X") /\ ~has("Android")
                         /\ has("iPhone OS") ->
                         "iOS " \o version("iPhone OS", "_")
                   [] ~has("Windows NT") /\ ~has("Mac OS X") /\ ~has("Android")
                         /\ ~has("iPhone OS")
                         /\ (\E i \in DOMAIN ua : ua[i].name = "Linux") -> "Linux"
                   [] OTHER -> "Unknown"
           /\ (has("Android") /\ \E i \in DOMAIN ua : ua[i].name = "Linux") =>
                 applied.result # "Linux"

\* a Linux token comes first and an Android signature follows, as in the user
\* agent of Chrome on Android
C38_Witness ==
    /\ applied.fn = "detectOS"
    /\ Len(applied.ua) = 2
    /\ applied.ua[1].name = "Linux"
    /\ applied.ua[2].name = "Android" /\ applied.ua[2].parts # <<>>
    /\ applied.result = "Android 14"

----------------------------------------------------------------------------
\* Part 9.  NewThreadForm: the title, topic and message the user edits, and
\* handleSubmit.  Texts are sequences of characters.

\* Submits of the form in one run.
MaxSubmits == 2

WhiteSpace == {" ", "\n"}

\* what the user may type as title and as message (both start empty), and
\* pick as topic
Titles == { <<" ">>, <<" ", "T">> }
Messages == { <<" ", "\n">>, <<" ", "h", " ", "i", "\n">> }
TopicIds == { "", "topic-1" }

\* the context prop
Contexts == { Undefined, Obj([page |-> Str("/dashboard")]) }

\* what create may resolve and reject with: every created ticket has an id of
\* its own
CreatedTicketValues == { Obj([id |-> Str("ticket-" \o ToString(i))]) : i \in 1..MaxSubmits }
CreateRejections == { NativeError("Error", "Validation error") }

\* a string value whose characters are chars
Text(chars) == [t |-> "string", chars |-> chars]

RECURSIVE TrimStart(_)
TrimStart(chars) ==
    IF chars # <<>> /\ Head(chars) \in WhiteSpace THEN TrimStart(Tail(chars)) ELSE chars

RECURSIVE TrimEnd(_)
TrimEnd(chars) ==
    IF chars # <<>> /\ chars[Len(chars)] \in WhiteSpace
    THEN TrimEnd(SubSeq(chars, 1, Len(chars) - 1))
    ELSE chars

\* s.trim()
Trim(chars) == TrimEnd(TrimStart(chars))

\* x || undefined for a text
OrUndefined(chars) == IF chars = <<>> THEN Undefined ELSE Text(chars)

\* The form is rendered with its props.
RenderForm(context, onCreated) ==
    /\ ~fields.rendered
    /\ fields' = [fields EXCEPT !.rendered = TRUE, !.context = context,
                                !.onCreated = onCreated]
    /\ UNCHANGED <<submits, notified>>

\* create is in flight: the inputs are disabled
Sending == \E i \in DOMAIN submits : submits[i].state = "pending"

\* onChange of the title input, the topic select and the message textarea
SetTitle(title) ==
    /\ fields.rendered /\ ~Sending
    /\ title # fields.title
    /\ fields' = [fields EXCEPT !.title = title]
    /\ UNCHANGED <<submits, notified>>

SetTopicId(topicId) ==
    /\ fields.rendered /\ ~Sending
    /\ topicId # fields.topicId
    /\ fields' = [fields EXCEPT !.topicId = topicId]
    /\ UNCHANGED <<submits, notified>>

SetMessage(message) ==
    /\ fields.rendered /\ ~Sending
    /\ message # fields.message
    /\ fields' = [fields EXCEPT !.message = message]
    /\ UNCHANGED <<submits, notified>>

\* a submit as the form keeps track of it: what was in the fields, whether
\* create was called and with what, and how the call went
NewSubmit(called, params) ==
    [title |-> fields.title, topicId |-> fields.topicId, message |-> fields.message,
     called |-> called, params |-> params,
     state |-> IF called THEN "pending" ELSE "returned", ticket |-> Undefined]

SubmitUnguarded ==
    /\ fields.rendered
    /\ Len(submits) < MaxSubmits
    /\ submits' = Append(submits,
                     NewSubmit(TRUE, [message |-> Text(Trim(fields.message)),
                                      title |-> OrUndefined(Trim(fields.title)),
                                      topic_id |-> IF fields.topicId = "" THEN Undefined
                                                   ELSE Str(fields.topicId),
                                      context |-> fields.context]))
    /\ UNCHANGED <<fields, notified>>

\* handleSubmit up to `await create(...)`
Submit ==
    /\ fields.rendered
    /\ Len(submits) < MaxSubmits
    /\ submits' = Append(submits,
                     IF Trim(fields.message) = <<>>
                     THEN NewSubmit(FALSE, Undefined)
                     ELSE NewSubmit(TRUE, [message |-> Text(Trim(fields.message)),
                                           title |-> OrUndefined(Trim(fields.title)),
                                           topic_id |-> IF fields.topicId = "" THEN Undefined
                                                        ELSE Str(fields.topicId),
                                           context |-> fields.context]))
    /\ UNCHANGED <<fields, notified>>

\* create resolves with the ticket: onCreated?.(ticket)
CreateResolves(i, ticket) ==
    /\ i \in DOMAIN submits
    /\ submits[i].state = "pending"
    /\ ticket = Obj([id |-> Str("ticket-" \o ToString(i))])
    /\ submits' = [submits EXCEPT ![i].state = "resolved", ![i].ticket = ticket]
    /\ notified' = IF fields.onCreated
                   THEN Append(notified, [submit |-> i, ticket |-> ticket])
                   ELSE notified
    /\ UNCHANGED fields

\* create rejects: handleSubmit rejects at the await
CreateRejects(i, e) ==
    /\ i \in DOMAIN submits
    /\ submits[i].state = "pending"
    /\ submits' = [submits EXCEPT ![i].state = "rejected"]
    /\ UNCHANGED <<fields, notified>>

FormNext ==
    \/ \E context \in Contexts, onCreated \in BOOLEAN :
          RenderForm(context, onCreated)
             /\ UNCHANGED <<clientVars, hookVars, mutationVars, appliedVars, probeVars,
                            supportVars, liveVars>>
    \/ \E title \in Titles :
          SetTitle(title)
             /\ UNCHANGED <<clientVars, hookVars, mutationVars, appliedVars, probeVars,
                            supportVars, liveVars>>
    \/ \E topicId \in TopicIds :
          SetTopicId(topicId)
             /\ UNCHANGED <<clientVars, hookVars, mutationVars, appliedVars, probeVars,
                            supportVars, liveVars>>
    \/ \E message \in Messages :
          SetMessage(message)
             /\ UNCHANGED <<clientVars, hookVars, mutationVars, appliedVars, probeVars,
                            supportVars, liveVars>>
    \/ Submit
          /\ UNCHANGED <<clientVars, hookVars, mutationVars, appliedVars, probeVars,
                         supportVars, liveVars>>
    \/ \E i \in 1..MaxSubmits, ticket \in CreatedTicketValues :
          CreateResolves(i, ticket)
             /\ UNCHANGED <<clientVars, hookVars, mutationVars, appliedVars, probeVars,
                            supportVars, liveVars>>
    \/ \E i \in 1..MaxSubmits, e \in CreateRejections :
          CreateRejects(i, e)
             /\ UNCHANGED <<clientVars, hookVars, mutationVars, appliedVars, probeVars,
                            supportVars, liveVars>>

SpecForm == Init /\ [][FormNext]_vars

\* t is raw without the white space at its two ends
IsTrimOf(t, raw) ==
    \E i, j \in 0..Len(raw) :
        /\ i <= j
        /\ t = SubSeq(raw, i + 1, j)
        /\ \A n \in 1..Len(raw) : (n <= i \/ n > j) => raw[n] \in WhiteSpace
        /\ t = <<>> \/ (t[1] \notin WhiteSpace /\ t[Len(t)] \notin WhiteSpace)

\* the calls of onCreated made for submit i
NotifiedFor(i) == { n \in DOMAIN notified : notified[n].submit = i }

\* C39: on submit NewThreadForm calls create only when the trimmed message
\* is not empty, with the trimmed message, the trimmed title or undefined
\* when it is blank, the selected topic id or undefined when none is
\* selected, and the context; onCreated is called exactly once, with the
\* created ticket, after create has resolved, and never when create rejects
\* or the message is blank.
C39_SubmitCallsCreateThenOnCreated ==
    \A i \in DOMAIN submits :
        LET s == submits[i] IN
        /\ s.called <=> \E n \in DOMAIN s.message : s.message[n] \notin WhiteSpace
        /\ s.called =>
              /\ s.params.message.t = "string"
              /\ IsTrimOf(s.params.message.chars, s.message)
              /\ IF \A n \in DOMAIN s.title : s.title[n] \in WhiteSpace
                 THEN s.params.title = Undefined
                 ELSE /\ s.params.title.t = "string"
                      /\ IsTrimOf(s.params.title.chars, s.title)
              /\ s.params.topic_id = IF s.topicId = "" THEN Undefined ELSE Str(s.topicId)
              /\ s.params.context = fields.context
        /\ Cardinality(NotifiedFor(i)) =
              IF s.state = "resolved" /\ fields.onCreated THEN 1 ELSE 0
        /\ \A n \in NotifiedFor(i) : notified[n].ticket = s.ticket

\* a blank submit, then a submit with a message, a title and a topic whose
\* create resolved, and onCreated was called with the ticket
C39_Witness ==
    /\ Len(submits) = 2
    /\ ~submits[1].called /\ submits[1].message = <<" ", "\n">>
    /\ submits[2].called /\ submits[2].state = "resolved"
    /\ submits[2].params.message = Text(<<"h", " ", "i">>)
    /\ submits[2].params.title = Text(<<"T">>)
    /\ submits[2].params.topic_id = Str("topic-1")
    /\ submits[2].params.context = Obj([page |-> Str("/dashboard")])
    /\ notified = << [submit |-> 2, ticket |-> Obj([id |-> Str("ticket-2")])] >>
====
